---- MODULE Spec2Model ----
(***************************************************************************)
(* Verification model of the DevRamps CLI bootstrap engine:                *)
(*   - executeDeployment, the phased concurrent executor                   *)
(*     (src/src/commands/bootstrap.ts),                                    *)
(*   - deployStack and its poll loop (src/src/aws/cloudformation.ts),      *)
(*   - deployOrgStack with the bucket-policy merge strategy                *)
(*     (src/src/commands/bootstrap.ts, src/src/merge/index.ts).            *)
(* Each part has its own specification; the variables of the other parts   *)
(* stay at their idle value.                                               *)
(***************************************************************************)
EXTENDS Integers, Sequences, FiniteSets, TLC

\* ------------------------------------------------------------------ bounds
\* accounts of a plan are 1..MaxAccounts; account 1 is the CI/CD account
MaxAccounts == 2
\* number of Pipeline, Stage and Import stacks of a plan
MaxPhase2Stacks == 3

\* ------------------------------------------------------- executor variables
VARIABLES
  plan,              \* the DeploymentPlan handed to executeDeployment
  currentAccountId,  \* identity.accountId (0: an account outside the plan)
  epc,               \* position of executeDeployment
  tpc,               \* per task: the call it has issued and is awaiting
  tres,              \* per task: its collected outcome
  results,           \* results = { success, failed }
  exitCode           \* process.exit status, -1 while running

execVars == <<plan, currentAccountId, epc, tpc, tres, results, exitCode>>

cicdAccountId == 1

Accounts == 1..MaxAccounts

TaskIds ==
  ({"account"} \X (1..MaxAccounts)) \cup {<<"org", 1>>}
    \cup ({"pipeline", "stage", "import"} \X (1..MaxPhase2Stacks))

\* sequences over S of length lo..hi
SeqsBetween(S, lo, hi) == UNION {[1..n -> S] : n \in lo..hi}

Range(s) == {s[i] : i \in DOMAIN s}

SetMax(S) == CHOOSE m \in S : \A x \in S : x <= m

\* account ids are opaque: they are numbered in the order buildDeploymentPlan
\* first meets them (CI/CD account, then stage accounts, then import sources)
FirstSeenOrder(s) ==
  \A i \in DOMAIN s : s[i] <= 1 + SetMax({cicdAccountId} \cup {s[j] : j \in 1..(i - 1)})

\* The plans buildDeploymentPlan can return, as far as the executor reads them:
\* one Pipeline stack per pipeline (at least one) in the CI/CD account, Stage
\* and Import stacks in their own accounts, and one Account stack per distinct
\* account touched, the CI/CD account first.
Plans ==
  {p \in [accountStacks : SeqsBetween(Accounts, 1, MaxAccounts),
          pipelineStacks : SeqsBetween({cicdAccountId}, 1, MaxPhase2Stacks),
          stageStacks : SeqsBetween(Accounts, 0, MaxPhase2Stacks - 1),
          importStacks : SeqsBetween(Accounts, 0, MaxPhase2Stacks - 1)] :
     /\ Len(p.pipelineStacks) + Len(p.stageStacks) + Len(p.importStacks)
          <= MaxPhase2Stacks
     /\ FirstSeenOrder(p.stageStacks \o p.importStacks)
     /\ p.accountStacks =
          [i \in 1..SetMax({cicdAccountId} \cup Range(p.stageStacks)
                             \cup Range(p.importStacks)) |-> i]}

Phase1Tasks == {<<"account", i>> : i \in DOMAIN plan.accountStacks}

Phase2Tasks ==
  {<<"org", 1>>}
    \cup {<<"pipeline", i>> : i \in DOMAIN plan.pipelineStacks}
    \cup {<<"stage", i>> : i \in DOMAIN plan.stageStacks}
    \cup {<<"import", i>> : i \in DOMAIN plan.importStacks}

PlanTasks == Phase1Tasks \cup Phase2Tasks

\* the account a task deploys into
TaskAccount(t) ==
  CASE t[1] = "account" -> plan.accountStacks[t[2]]
    [] t[1] = "org" -> cicdAccountId
    [] t[1] = "pipeline" -> cicdAccountId
    [] t[1] = "stage" -> plan.stageStacks[t[2]]
    [] t[1] = "import" -> plan.importStacks[t[2]]

NeedsAssumeRole(t) == TaskAccount(t) # currentAccountId

\* the first call a deploy*Stack function issues (it runs synchronously up to
\* its first await when the task is spawned)
FirstCall(t) ==
  IF NeedsAssumeRole(t) THEN "assumeRoleForAccount" ELSE "previewStackChanges"

Succeeded(t) == tres[t] = "ok"
Failed(t) == tres[t] = "failed"
Resolved(t) == tpc[t] = "resolved"

\* Promise.all over the tasks of a phase: settles when every task has
\* resolved (no task body can reject, each catches its own errors)
AllSettledRace(ts) == \E t \in ts : Resolved(t)
AllSettledFailFast(ts) == (\A t \in ts : Resolved(t)) \/ (\E t \in ts : Failed(t))
AllSettled(ts) == \A t \in ts : Resolved(t)

\* the tally loops over the collected results
CountSuccess(ts) == Cardinality({t \in ts : Succeeded(t)})
CountFailed(ts) == Cardinality({t \in ts : Failed(t)})

\* the loops `for (const result of ...Results)` add to the shared counters
TallyFresh(r, ts) == [success |-> CountSuccess(ts), failed |-> CountFailed(ts)]
Tally(r, ts) ==
  [success |-> r.success + CountSuccess(ts), failed |-> r.failed + CountFailed(ts)]

\* the summary: exit 0 when nothing failed, 1 otherwise
ExitStatusAnySuccess(r) == IF r.success > 0 THEN 0 ELSE 1
ExitStatus(r) == IF r.failed = 0 THEN 0 ELSE 1

\* `if (results.failed > 0)` after phase 1
AbortAfterPhase1AllFailed(r) == r.success = 0
AbortAfterPhase1(r) == r.failed > 0

\* spawn the tasks ts: each runs up to its first await, where its first call
\* has been issued
SpawnAll(ts) ==
  tpc' = [t \in TaskIds |-> IF t \in ts THEN FirstCall(t) ELSE tpc[t]]

ExecInit ==
  /\ plan \in Plans
  /\ currentAccountId \in 0..1
  /\ epc = "start"
  /\ tpc = [t \in TaskIds |-> "unspawned"]
  /\ tres = [t \in TaskIds |-> "none"]
  /\ results = [success |-> 0, failed |-> 0]
  /\ exitCode = -1

\* executeDeployment up to `await Promise.all(plan.accountStacks.map(...))`
StartPhase1 ==
  /\ epc = "start"
  /\ epc' = "phase1"
  /\ SpawnAll(Phase1Tasks)
  /\ UNCHANGED <<plan, currentAccountId, tres, results, exitCode>>

\* the continuation after the phase 1 join: tally, abort or spawn phase 2
JoinPhase1 ==
  /\ epc = "phase1"
  /\ AllSettled(Phase1Tasks)
  /\ LET r == Tally(results, Phase1Tasks)
     IN /\ results' = r
        /\ IF AbortAfterPhase1(r)
           THEN /\ exitCode' = 1
                /\ epc' = "exited"
                /\ UNCHANGED tpc
           ELSE /\ epc' = "phase2"
                /\ SpawnAll(Phase2Tasks)
                /\ UNCHANGED exitCode
  /\ UNCHANGED <<plan, currentAccountId, tres>>

\* the continuation after the phase 2 join: tally, summary, exit
JoinPhase2 ==
  /\ epc = "phase2"
  /\ AllSettled(Phase2Tasks)
  /\ LET r == Tally(results, Phase2Tasks)
     IN /\ results' = r
        /\ exitCode' = ExitStatus(r)
  /\ epc' = "exited"
  /\ UNCHANGED <<plan, currentAccountId, tpc, tres>>

\* a task's awaited call returned: the task issues its next call
Advance(t, next) ==
  /\ tpc' = [tpc EXCEPT ![t] = next]
  /\ UNCHANGED tres

\* a task's awaited call threw ("failed") or its last call returned ("ok"):
\* the task's try/catch turns it into an outcome { success, error }
Resolve(t, outcome) ==
  /\ tpc' = [tpc EXCEPT ![t] = "resolved"]
  /\ tres' = [tres EXCEPT ![t] = outcome]

\* assumeRoleForAccount returned credentials or threw RoleAssumptionError
AssumeRoleReturns(t) ==
  /\ tpc[t] = "assumeRoleForAccount"
  /\ \/ Advance(t, "previewStackChanges")
     \/ Resolve(t, "failed")
  /\ UNCHANGED <<plan, currentAccountId, epc, results, exitCode>>

\* previewStackChanges returned, or its status probe threw
PreviewReturns(t) ==
  /\ tpc[t] = "previewStackChanges"
  /\ \/ Advance(t, "deployStack")
     \/ Resolve(t, "failed")
  /\ UNCHANGED <<plan, currentAccountId, epc, results, exitCode>>

\* deployStack returned or threw CloudFormationError
DeployStackReturns(t) ==
  /\ tpc[t] = "deployStack"
  /\ \/ Resolve(t, "ok")
     \/ Resolve(t, "failed")
  /\ UNCHANGED <<plan, currentAccountId, epc, results, exitCode>>

\* the executor is not running
ExecIdle ==
  /\ plan = [accountStacks |-> <<cicdAccountId>>, pipelineStacks |-> <<cicdAccountId>>,
             stageStacks |-> <<>>, importStacks |-> <<>>]
  /\ currentAccountId = cicdAccountId
  /\ epc = "idle"
  /\ tpc = [t \in TaskIds |-> "unspawned"]
  /\ tres = [t \in TaskIds |-> "none"]
  /\ results = [success |-> 0, failed |-> 0]
  /\ exitCode = -1

\* =========================================================================
\* deployStack: the deployment state machine of one stack
\* (src/src/aws/cloudformation.ts)
\* =========================================================================

\* events the provider holds for the stack during one deployStack call
MaxEvents == 2
\* maxWaitTime, counted in poll intervals
MaxWaitTicks == 2

VARIABLES
  providerStatus,      \* the stack's status at the provider; "NONE": no stack
  providerEvents,      \* the provider's event list of the stack, oldest first
  dpc,                 \* position of deployStack: the call it is awaiting
  stackStatus,         \* deployStack: what the status probe returned
  submitted,           \* operations sent to the provider, in order
  operationStart,      \* operationStartTime: events after this index are newer
  elapsed,             \* Date.now() - startTime, in poll intervals
  currentStatus,       \* waitForStackWithProgress: currentStatus
  seenEventIds,        \* waitForStackWithProgress: seenEventIds
  completedResources,  \* waitForStackWithProgress: completedResources
  latestResourceId,    \* waitForStackWithProgress: latestResourceId
  latestFailureReason, \* waitForStackWithProgress: latestFailureReason
  progressEntry,       \* the stack's entry in the MultiStackProgress registry
  thrown,              \* the error deployStack threw, name "none" if none
  planAction           \* stack.action of the descriptor the deploy function was given

stackVars ==
  <<providerStatus, providerEvents, dpc, stackStatus, submitted, operationStart,
    elapsed, currentStatus, seenEventIds, completedResources,
    latestResourceId, latestFailureReason, progressEntry, thrown, planAction>>

loopVars ==
  <<elapsed, currentStatus, seenEventIds, completedResources,
    latestResourceId, latestFailureReason>>

TERMINAL_STATES ==
  {"CREATE_COMPLETE", "CREATE_FAILED", "DELETE_COMPLETE", "DELETE_FAILED",
   "ROLLBACK_COMPLETE", "ROLLBACK_FAILED", "UPDATE_COMPLETE", "UPDATE_FAILED",
   "UPDATE_ROLLBACK_COMPLETE", "UPDATE_ROLLBACK_FAILED"}

SuccessStatesAnyComplete ==
  {"CREATE_COMPLETE", "UPDATE_COMPLETE", "ROLLBACK_COMPLETE", "UPDATE_ROLLBACK_COMPLETE",
   "DELETE_COMPLETE"}
SUCCESS_STATES == {"CREATE_COMPLETE", "UPDATE_COMPLETE"}

\* the statuses the provider reports for a stack
InProgressStatuses ==
  {"CREATE_IN_PROGRESS", "ROLLBACK_IN_PROGRESS", "UPDATE_IN_PROGRESS",
   "UPDATE_COMPLETE_CLEANUP_IN_PROGRESS", "UPDATE_ROLLBACK_IN_PROGRESS",
   "UPDATE_ROLLBACK_COMPLETE_CLEANUP_IN_PROGRESS", "DELETE_IN_PROGRESS"}

\* the provider's stack lifecycle: the statuses that can follow a status
ProviderSuccessors(st) ==
  CASE st = "CREATE_IN_PROGRESS" -> {"CREATE_COMPLETE", "CREATE_FAILED", "ROLLBACK_IN_PROGRESS"}
    [] st = "ROLLBACK_IN_PROGRESS" -> {"ROLLBACK_COMPLETE", "ROLLBACK_FAILED"}
    [] st = "UPDATE_IN_PROGRESS" ->
         {"UPDATE_COMPLETE_CLEANUP_IN_PROGRESS", "UPDATE_ROLLBACK_IN_PROGRESS", "UPDATE_FAILED"}
    [] st = "UPDATE_COMPLETE_CLEANUP_IN_PROGRESS" -> {"UPDATE_COMPLETE"}
    [] st = "UPDATE_ROLLBACK_IN_PROGRESS" ->
         {"UPDATE_ROLLBACK_COMPLETE_CLEANUP_IN_PROGRESS", "UPDATE_ROLLBACK_FAILED"}
    [] st = "UPDATE_ROLLBACK_COMPLETE_CLEANUP_IN_PROGRESS" -> {"UPDATE_ROLLBACK_COMPLETE"}
    [] st = "DELETE_IN_PROGRESS" -> {"NONE", "DELETE_FAILED"}
    [] OTHER -> {}

\* the statuses in which the provider accepts an update
Updatable == {"CREATE_COMPLETE", "UPDATE_COMPLETE", "UPDATE_ROLLBACK_COMPLETE"}

\* the statuses a stack can rest in when deployStack is called
RestingStatuses ==
  {"NONE", "CREATE_COMPLETE", "UPDATE_ROLLBACK_COMPLETE", "ROLLBACK_COMPLETE",
   "UPDATE_ROLLBACK_FAILED"}

\* stack events: logicalId "S" is the stack itself
EventPool ==
  {[logicalId |-> "R1", status |-> "CREATE_COMPLETE", reason |-> ""],
   [logicalId |-> "R1", status |-> "CREATE_FAILED", reason |-> "denied"],
   [logicalId |-> "R2", status |-> "CREATE_FAILED", reason |-> "denied"],
   [logicalId |-> "R2", status |-> "CREATE_FAILED", reason |-> ""],
   [logicalId |-> "R2", status |-> "ROLLBACK_COMPLETE", reason |-> ""],
   [logicalId |-> "S", status |-> "CREATE_FAILED", reason |-> "denied"]}

\* an event left in the list by an earlier operation on the stack
OldEvent == [logicalId |-> "R1", status |-> "CREATE_FAILED", reason |-> "stale"]

stackName == "S"

\* status.includes('_COMPLETE'), status.includes('ROLLBACK'),
\* status.includes('FAILED') on the statuses above
IncludesComplete(st) ==
  st \in {"CREATE_COMPLETE", "ROLLBACK_COMPLETE", "UPDATE_COMPLETE", "DELETE_COMPLETE",
          "UPDATE_ROLLBACK_COMPLETE", "UPDATE_COMPLETE_CLEANUP_IN_PROGRESS",
          "UPDATE_ROLLBACK_COMPLETE_CLEANUP_IN_PROGRESS"}

IncludesRollback(st) ==
  st \in {"ROLLBACK_IN_PROGRESS", "ROLLBACK_COMPLETE", "ROLLBACK_FAILED",
          "UPDATE_ROLLBACK_IN_PROGRESS", "UPDATE_ROLLBACK_COMPLETE",
          "UPDATE_ROLLBACK_FAILED", "UPDATE_ROLLBACK_COMPLETE_CLEANUP_IN_PROGRESS"}

IncludesFailed(st) ==
  st \in {"CREATE_FAILED", "ROLLBACK_FAILED", "UPDATE_FAILED", "DELETE_FAILED",
          "UPDATE_ROLLBACK_FAILED"}

\* every status with _COMPLETE in it counts
isResourceCompleteWithRollback(st) == st # "" /\ IncludesComplete(st)

isResourceComplete(st) == st # "" /\ IncludesComplete(st) /\ ~IncludesRollback(st)

\* ---- the MultiStackProgress registry entry (src/src/utils/logger.ts)
startStack(e) == [e EXCEPT !.status = "in_progress", !.cfnStatus = "STARTING"]

updateStack(e, completed, status, cfnStatus, resourceId) ==
  [e EXCEPT !.completed = completed,
            !.status = status,
            !.cfnStatus = IF cfnStatus # "" THEN cfnStatus ELSE @,
            !.latestResourceId = IF resourceId # "" THEN resourceId ELSE @]

completeStack(e, success, failureReason) ==
  [e EXCEPT !.status = IF success THEN "complete" ELSE "failed",
            !.completed = IF success THEN e.total ELSE @,
            !.failureReason = IF failureReason # "" THEN failureReason ELSE @]

\* ---- errors
NoError == [name |-> "none", cause |-> ""]
NoUpdatesMessage == "No updates are to be performed"
TimeoutMessage == "Stack operation timed out"
StatusMessage(st) == "Stack operation failed with status: " \o st

\* the messages of the errors a provider call can fail with
ProviderErrors == {"AccessDenied"}

CatchEveryError(message, entry) ==
  /\ progressEntry' = completeStack(entry, FALSE, "")
  /\ dpc' = "thrown"
  /\ thrown' = [name |-> "CloudFormationError", cause |-> message]

\* deployStack's catch: "No updates are to be performed" is a success, every
\* other error becomes a CloudFormationError carrying the message
Catch(message, entry) ==
  IF message = NoUpdatesMessage
  THEN /\ progressEntry' = completeStack(entry, TRUE, "")
       /\ dpc' = "returned"
       /\ UNCHANGED thrown
  ELSE /\ progressEntry' = completeStack(entry, FALSE, "")
       /\ dpc' = "thrown"
       /\ thrown' = [name |-> "CloudFormationError", cause |-> message]

\* waitForStackWithProgress's catch, then deployStack's catch
WaitCatch(message, entry) == Catch(message, completeStack(entry, FALSE, ""))

StackInit ==
  /\ providerStatus \in RestingStatuses
  /\ providerEvents \in
       IF providerStatus = "NONE" THEN {<<>>} ELSE {<<>>, <<OldEvent>>}
  /\ dpc = "start"
  /\ stackStatus = [exists |-> FALSE, status |-> ""]
  /\ submitted = <<>>
  /\ operationStart = 0
  /\ elapsed = 0
  /\ currentStatus = ""
  /\ seenEventIds = {}
  /\ completedResources = {}
  /\ latestResourceId = ""
  /\ latestFailureReason = ""
  /\ progressEntry = [status |-> "pending", completed |-> 0, total |-> 1,
                      cfnStatus |-> "", latestResourceId |-> "", failureReason |-> ""]
  /\ thrown = NoError
  /\ planAction \in {"CREATE", "UPDATE"}

StackIdle ==
  /\ providerStatus = "NONE"
  /\ providerEvents = <<>>
  /\ dpc = "idle"
  /\ stackStatus = [exists |-> FALSE, status |-> ""]
  /\ submitted = <<>>
  /\ operationStart = 0
  /\ elapsed = 0
  /\ currentStatus = ""
  /\ seenEventIds = {}
  /\ completedResources = {}
  /\ latestResourceId = ""
  /\ latestFailureReason = ""
  /\ progressEntry = [status |-> "pending", completed |-> 0, total |-> 1,
                      cfnStatus |-> "", latestResourceId |-> "", failureReason |-> ""]
  /\ thrown = NoError
  /\ planAction = "CREATE"

\* ---- the provider
\* deployStack observes the provider through the calls of its wait loops only:
\* a step the provider takes during the sleep is a step before the next call returns
Running == dpc \in {"waitUntilStackDeleteComplete", "describeStacks", "describeStackEvents"}

\* the stack's operation moves on
ProviderAdvance ==
  /\ Running
  /\ \E st \in ProviderSuccessors(providerStatus) :
       /\ providerStatus' = st
       /\ providerEvents' = IF st = "NONE" THEN <<>> ELSE providerEvents
  /\ UNCHANGED <<dpc, stackStatus, submitted, operationStart, loopVars, progressEntry, thrown>>

\* the stack's operation records an event
ProviderEvent ==
  /\ Running
  /\ providerStatus \in InProgressStatuses
  /\ Len(providerEvents) < MaxEvents
  /\ \E ev \in EventPool : providerEvents' = Append(providerEvents, ev)
  /\ UNCHANGED <<providerStatus, dpc, stackStatus, submitted, operationStart, loopVars,
                 progressEntry, thrown>>

\* ---- deployStack
\* deployStack up to `await getStackStatus(...)`
DeployStackCalled ==
  /\ dpc = "start"
  /\ progressEntry' = startStack(progressEntry)
  /\ dpc' = "getStackStatus"
  /\ UNCHANGED <<providerStatus, providerEvents, stackStatus, submitted, operationStart,
                 loopVars, thrown>>

\* createStack / updateStack up to their `await client.send(...)`
Submit(op) ==
  /\ operationStart' = Len(providerEvents)
  /\ submitted' = Append(submitted, op)
  /\ dpc' = op

ProbeReturnsMasked ==
  /\ dpc = "getStackStatus"
  /\ stackStatus' = IF providerStatus = "NONE"
                    THEN [exists |-> FALSE, status |-> ""]
                    ELSE [exists |-> TRUE, status |-> providerStatus]
  /\ \/ Submit("create")
     \/ IF providerStatus = "ROLLBACK_COMPLETE"
        THEN /\ submitted' = Append(submitted, "delete")
             /\ dpc' = "delete"
             /\ UNCHANGED operationStart
        ELSE IF providerStatus # "NONE" THEN Submit("update") ELSE Submit("create")
  /\ UNCHANGED <<progressEntry, thrown, providerStatus, providerEvents, loopVars>>

\* deployStack picking the operation the plan announced
ProbeReturnsFollowsPlan ==
  /\ dpc = "getStackStatus"
  /\ \/ /\ \E m \in ProviderErrors : Catch(m, progressEntry)
        /\ UNCHANGED <<stackStatus, submitted, operationStart>>
     \/ /\ stackStatus' = IF providerStatus = "NONE"
                          THEN [exists |-> FALSE, status |-> ""]
                          ELSE [exists |-> TRUE, status |-> providerStatus]
        /\ IF planAction = "UPDATE" THEN Submit("update") ELSE Submit("create")
        /\ UNCHANGED <<progressEntry, thrown>>
  /\ UNCHANGED <<providerStatus, providerEvents, loopVars>>

\* getStackStatus returned or threw; deployStack picks the operation
ProbeReturns ==
  /\ dpc = "getStackStatus"
  /\ \/ /\ \E m \in ProviderErrors : Catch(m, progressEntry)
        /\ UNCHANGED <<stackStatus, submitted, operationStart>>
     \/ /\ stackStatus' = IF providerStatus = "NONE"
                          THEN [exists |-> FALSE, status |-> ""]
                          ELSE [exists |-> TRUE, status |-> providerStatus]
        /\ IF providerStatus = "ROLLBACK_COMPLETE"
           THEN /\ submitted' = Append(submitted, "delete")
                /\ dpc' = "delete"
                /\ UNCHANGED operationStart
           ELSE IF providerStatus # "NONE" THEN Submit("update") ELSE Submit("create")
        /\ UNCHANGED <<progressEntry, thrown>>
  /\ UNCHANGED <<providerStatus, providerEvents, loopVars>>

\* deleteStack: the DeleteStackCommand returned or threw
DeleteSubmitReturns ==
  /\ dpc = "delete"
  /\ \/ /\ \E m \in ProviderErrors : Catch(m, progressEntry)
        /\ UNCHANGED providerStatus
     \/ /\ providerStatus' = "DELETE_IN_PROGRESS"
        /\ dpc' = "waitUntilStackDeleteComplete"
        /\ UNCHANGED <<progressEntry, thrown>>
  /\ UNCHANGED <<providerEvents, stackStatus, submitted, operationStart, loopVars>>

\* waitUntilStackDeleteComplete resolves once the stack is gone
DeleteCompleteNoWait == TRUE
DeleteComplete == providerStatus = "NONE"

\* deleteStack: the waiter resolved (deployStack goes on to createStack) or
\* threw (deletion failed, or 300 s passed)
DeleteWaitReturns ==
  /\ dpc = "waitUntilStackDeleteComplete"
  /\ \/ /\ DeleteComplete
        /\ Submit("create")
        /\ UNCHANGED <<progressEntry, thrown>>
     \/ /\ providerStatus # "NONE"
        /\ Catch("Waiter has failed or timed out", progressEntry)
        /\ UNCHANGED <<submitted, operationStart>>
  /\ UNCHANGED <<providerStatus, providerEvents, stackStatus, loopVars>>

\* waitForStackWithProgress from its entry to its first DescribeStacks call
EnterWait ==
  /\ elapsed' = 0
  /\ currentStatus' = ""
  /\ seenEventIds' = {}
  /\ completedResources' = {}
  /\ latestResourceId' = ""
  /\ latestFailureReason' = ""
  /\ dpc' = "describeStacks"

\* createStack: the CreateStackCommand returned or threw
CreateSubmitReturns ==
  /\ dpc = "create"
  /\ \/ /\ \E m \in ProviderErrors : Catch(m, progressEntry)
        /\ UNCHANGED <<providerStatus, loopVars>>
     \/ /\ providerStatus # "NONE"
        /\ Catch("AlreadyExists", progressEntry)
        /\ UNCHANGED <<providerStatus, loopVars>>
     \/ /\ providerStatus = "NONE"
        /\ providerStatus' = "CREATE_IN_PROGRESS"
        /\ EnterWait
        /\ UNCHANGED <<progressEntry, thrown>>
  /\ UNCHANGED <<providerEvents, stackStatus, submitted, operationStart>>

\* updateStack: the UpdateStackCommand returned or threw
UpdateSubmitReturns ==
  /\ dpc = "update"
  /\ \/ /\ \E m \in ProviderErrors : Catch(m, progressEntry)
        /\ UNCHANGED <<providerStatus, loopVars>>
     \/ /\ providerStatus \notin Updatable
        /\ Catch("ValidationError", progressEntry)
        /\ UNCHANGED <<providerStatus, loopVars>>
     \/ /\ providerStatus \in Updatable
        /\ Catch(NoUpdatesMessage, progressEntry)
        /\ UNCHANGED <<providerStatus, loopVars>>
     \/ /\ providerStatus \in Updatable
        /\ providerStatus' = "UPDATE_IN_PROGRESS"
        /\ EnterWait
        /\ UNCHANGED <<progressEntry, thrown>>
  /\ UNCHANGED <<providerEvents, stackStatus, submitted, operationStart>>

\* the poll loop: DescribeStacks returned the status or threw
DescribeStacksReturns ==
  /\ dpc = "describeStacks"
  /\ \/ /\ \E m \in ProviderErrors : WaitCatch(m, progressEntry)
        /\ UNCHANGED currentStatus
     \/ /\ providerStatus = "NONE"
        /\ WaitCatch("Stack does not exist", progressEntry)
        /\ UNCHANGED currentStatus
     \/ /\ providerStatus # "NONE"
        /\ currentStatus' = providerStatus
        /\ dpc' = "describeStackEvents"
        /\ UNCHANGED <<progressEntry, thrown>>
  /\ UNCHANGED <<providerStatus, providerEvents, stackStatus, submitted, operationStart,
                 elapsed, seenEventIds, completedResources, latestResourceId,
                 latestFailureReason>>

\* the events the loop has not handled yet, oldest first
NewEventIds(events) ==
  {i \in DOMAIN events : i > operationStart /\ i \notin seenEventIds}

\* `for (const event of newEvents)`: the loop's locals after the events with
\* ids i..n, starting from the locals in acc
RECURSIVE HandleEvents(_, _, _, _)
HandleEvents(events, ids, i, acc) ==
  IF i > Len(events) THEN acc
  ELSE IF i \notin ids THEN HandleEvents(events, ids, i + 1, acc)
  ELSE LET ev == events[i]
           own == ev.logicalId # "" /\ ev.logicalId # stackName
       IN HandleEvents(events, ids, i + 1,
            [seen |-> acc.seen \cup {i},
             latestResourceId |-> IF own THEN ev.logicalId ELSE acc.latestResourceId,
             completed |-> IF own /\ isResourceComplete(ev.status)
                           THEN acc.completed \cup {ev.logicalId} ELSE acc.completed,
             reason |-> IF own /\ IncludesFailed(ev.status) /\ ev.reason # ""
                        THEN ev.logicalId \o ": " \o ev.reason ELSE acc.reason])

\* the status shown for the stack
DisplayStatus(st) ==
  IF IncludesRollback(st) THEN "rollback"
  ELSE IF IncludesFailed(st) THEN "failed" ELSE "in_progress"

\* `latestFailureReason || currentStatus`
FailureReason(reason, st) == IF reason # "" THEN reason ELSE st

\* the poll loop: DescribeStackEvents returned or threw; the loop handles the
\* new events, updates the registry and classifies the status
DescribeStackEventsReturns ==
  /\ dpc = "describeStackEvents"
  /\ \/ /\ \E m \in ProviderErrors : WaitCatch(m, progressEntry)
        /\ UNCHANGED <<seenEventIds, completedResources, latestResourceId, latestFailureReason>>
     \/ LET acc == HandleEvents(providerEvents, NewEventIds(providerEvents), 1,
                     [seen |-> seenEventIds, latestResourceId |-> latestResourceId,
                      completed |-> completedResources, reason |-> latestFailureReason])
            shown == updateStack(progressEntry, Cardinality(acc.completed),
                       DisplayStatus(currentStatus), currentStatus, acc.latestResourceId)
        IN /\ seenEventIds' = acc.seen
           /\ completedResources' = acc.completed
           /\ latestResourceId' = acc.latestResourceId
           /\ latestFailureReason' = acc.reason
           /\ IF currentStatus \in TERMINAL_STATES
              THEN IF currentStatus \in SUCCESS_STATES
                   THEN /\ progressEntry' = completeStack(shown, TRUE, "")
                        /\ dpc' = "returned"
                        /\ UNCHANGED thrown
                   ELSE WaitCatch(StatusMessage(currentStatus),
                          completeStack(shown, FALSE, FailureReason(acc.reason, currentStatus)))
              ELSE /\ progressEntry' = shown
                   /\ dpc' = "sleep"
                   /\ UNCHANGED thrown
  /\ UNCHANGED <<providerStatus, providerEvents, stackStatus, submitted, operationStart,
                 elapsed, currentStatus>>

\* `Date.now() - startTime > maxWaitTime * 1000`
TimedOut(e) == e > MaxWaitTicks

\* a loop that polls again whatever time has passed
SleepReturnsNoCeiling ==
  /\ dpc = "sleep"
  /\ elapsed' = IF elapsed < MaxWaitTicks THEN elapsed + 1 ELSE elapsed
  /\ dpc' = "describeStacks"
  /\ UNCHANGED <<progressEntry, thrown>>
  /\ UNCHANGED <<providerStatus, providerEvents, stackStatus, submitted, operationStart,
                 currentStatus, seenEventIds, completedResources, latestResourceId,
                 latestFailureReason>>

\* the poll loop: the poll interval passed; the loop checks the ceiling and
\* polls again
SleepReturns ==
  /\ dpc = "sleep"
  /\ elapsed' = elapsed + 1
  /\ IF TimedOut(elapsed')
     THEN WaitCatch(TimeoutMessage, progressEntry)
     ELSE /\ dpc' = "describeStacks"
          /\ UNCHANGED <<progressEntry, thrown>>
  /\ UNCHANGED <<providerStatus, providerEvents, stackStatus, submitted, operationStart,
                 currentStatus, seenEventIds, completedResources, latestResourceId,
                 latestFailureReason>>

\* =========================================================================
\* deployOrgStack over repeated bootstrap runs: the bucket-policy merge
\* (src/src/commands/bootstrap.ts, src/src/merge/index.ts)
\* =========================================================================

\* bootstrap runs in a row
MaxRuns == 2

VARIABLES
  orgExists,         \* the Org stack exists at the provider
  bucketPolicy,      \* the deployed bucket policy: its statements' principals
  opc,               \* position of the run: the call it is awaiting
  runs,              \* runs finished so far
  allTargetAccountIds, \* plan.orgStack.targetAccountIds
  orgAction,         \* plan.orgStack.action
  policyReadable,    \* GetBucketPolicy works during this run
  targetAccountIds,  \* deployOrgStack: the list given to generateOrgStackTemplate
  existedBefore,     \* orgExists when the run began
  policyBefore       \* bucketPolicy when the run began

orgVars ==
  <<orgExists, bucketPolicy, opc, runs, allTargetAccountIds, orgAction, policyReadable,
    targetAccountIds, existedBefore, policyBefore>>

\* `arn:aws:iam::${id}:root`, as its fields between the colons; account ids
\* stand for 12-digit strings, whose lexicographic order is the numeric one
RootArn(id) == <<"arn", "aws", "iam", "", id, "root">>

\* other principals a policy can hold: a role, a bare account id, and a
\* principal of another service
RoleArn(id) == <<"arn", "aws", "iam", "", id, "role/deployer">>
BareId(id) == <<id>>
StsArn(id) == <<"arn", "aws", "sts", "", id, "assumed-role/deployer">>

NoPolicy == <<>>

\* `[...new Set(ids)]`: the first occurrence of each id, in order
Dedupe(ids) ==
  LET first == {i \in DOMAIN ids : \A j \in 1..(i - 1) : ids[j] # ids[i]}
  IN [k \in 1..Cardinality(first) |->
        ids[CHOOSE i \in first : Cardinality({j \in first : j <= i}) = k]]

\* Array.prototype.sort() of a set of ids
RECURSIVE Sorted(_)
Sorted(S) ==
  IF S = {} THEN <<>>
  ELSE LET m == CHOOSE x \in S : \A y \in S : x <= y
       IN <<m>> \o Sorted(S \ {m})

\* the principals of all statements, in order
RECURSIVE Principals(_)
Principals(policy) ==
  IF policy = <<>> THEN <<>> ELSE Head(policy) \o Principals(Tail(policy))

\* /arn:aws:iam::(\d{12}):/ or /^\d{12}$/ on one principal; 0: no id
ExtractedId(p) ==
  IF Len(p) >= 6 /\ SubSeq(p, 1, 4) = <<"arn", "aws", "iam", "">> THEN p[5]
  ELSE IF Len(p) = 1 THEN p[1] ELSE 0

RECURSIVE ExtractedIds(_)
ExtractedIds(ps) ==
  IF ps = <<>> THEN <<>>
  ELSE LET id == ExtractedId(Head(ps))
       IN (IF id # 0 THEN <<id>> ELSE <<>>) \o ExtractedIds(Tail(ps))

extractAccountIdsFromPolicy(policy) == Dedupe(ExtractedIds(Principals(policy)))

\* BucketPolicyData | null
Absent == [present |-> FALSE, allowedAccountIds |-> <<>>]
Data(ids) == [present |-> TRUE, allowedAccountIds |-> ids]

\* extractExisting: null when the policy cannot be read or there is none
extractExisting(readable, policy) ==
  IF readable /\ policy # NoPolicy
  THEN Data(extractAccountIdsFromPolicy(policy)) ELSE Absent

merge(existing, newData) ==
  Data(Sorted((IF existing.present THEN Range(existing.allowedAccountIds) ELSE {})
                \cup Range(newData.allowedAccountIds)))

\* the policy's statements: CI/CD account, list permission for all ids, one
\* statement per id other than the CI/CD account
createTerraformStateBucketPolicy(cicd, allowedAccountIds) ==
  LET others == SelectSeq(allowedAccountIds, LAMBDA id : id # cicd)
  IN << <<RootArn(cicd)>>,
        [i \in DOMAIN allowedAccountIds |-> RootArn(allowedAccountIds[i])] >>
       \o [i \in DOMAIN others |-> <<RootArn(others[i])>>]

\* Array.from(allTargetAccountIds): the pipelines' target accounts, each once,
\* in the order the pipelines name them
TargetLists ==
  {l \in SeqsBetween(Accounts, 1, MaxAccounts) :
     \A i, j \in DOMAIN l : l[i] = l[j] => i = j}

\* a policy edited by hand since it was deployed
EditedPolicy ==
  << <<RootArn(cicdAccountId)>>,
     <<RoleArn(MaxAccounts), StsArn(cicdAccountId), BareId(MaxAccounts)>> >>

OrgInit ==
  /\ \/ orgExists = FALSE /\ bucketPolicy = NoPolicy
     \/ /\ orgExists = TRUE
        /\ bucketPolicy \in
             {createTerraformStateBucketPolicy(cicdAccountId, <<MaxAccounts>>), EditedPolicy}
  /\ opc = "idle"
  /\ runs = 0
  /\ allTargetAccountIds = <<>>
  /\ orgAction = ""
  /\ policyReadable = TRUE
  /\ targetAccountIds = <<>>
  /\ existedBefore = FALSE
  /\ policyBefore = NoPolicy

OrgIdle ==
  /\ orgExists = FALSE
  /\ bucketPolicy = NoPolicy
  /\ opc = "off"
  /\ runs = 0
  /\ allTargetAccountIds = <<>>
  /\ orgAction = ""
  /\ policyReadable = TRUE
  /\ targetAccountIds = <<>>
  /\ existedBefore = FALSE
  /\ policyBefore = NoPolicy

\* a bootstrap run begins: buildDeploymentPlan up to
\* `await determineStackAction(orgStackName, ...)`
BootstrapCalled ==
  /\ opc = "idle"
  /\ runs < MaxRuns
  /\ allTargetAccountIds' \in TargetLists
  /\ policyReadable' \in BOOLEAN
  /\ existedBefore' = orgExists
  /\ policyBefore' = bucketPolicy
  /\ opc' = "determineStackAction"
  /\ UNCHANGED <<orgExists, bucketPolicy, runs, orgAction, targetAccountIds>>

\* determineStackAction: getStackStatus returned, or threw and the action
\* defaults to CREATE
DetermineStackActionReturns ==
  /\ opc = "determineStackAction"
  /\ \/ orgAction' = IF orgExists THEN "UPDATE" ELSE "CREATE"
     \/ orgAction' = "CREATE"
  /\ opc' = "planned"
  /\ UNCHANGED <<orgExists, bucketPolicy, runs, allTargetAccountIds, policyReadable,
                 targetAccountIds, existedBefore, policyBefore>>

\* generateOrgStackTemplate and previewStackChanges up to its first call
GenerateTemplate(ids) ==
  /\ targetAccountIds' = ids
  /\ opc' = "previewStackChanges"

\* deployOrgStack up to readExistingStack, or up to the preview when the plan
\* says CREATE
DeployOrgStackCalled ==
  /\ opc = "planned"
  /\ IF orgAction = "UPDATE"
     THEN /\ targetAccountIds' = allTargetAccountIds
          /\ opc' = "readExistingStack"
     ELSE GenerateTemplate(allTargetAccountIds)
  /\ UNCHANGED <<orgExists, bucketPolicy, runs, allTargetAccountIds, orgAction,
                 policyReadable, existedBefore, policyBefore>>

\* readExistingStack returned the stack, or null (no stack, or any error)
ReadExistingStackReturns ==
  /\ opc = "readExistingStack"
  /\ \/ /\ orgExists
        /\ opc' = "extractExisting"
        /\ UNCHANGED targetAccountIds
     \/ GenerateTemplate(targetAccountIds)
  /\ UNCHANGED <<orgExists, bucketPolicy, runs, allTargetAccountIds, orgAction,
                 policyReadable, existedBefore, policyBefore>>

\* extractExisting returned; merge
ExtractExistingReturns ==
  /\ opc = "extractExisting"
  /\ LET existing == extractExisting(policyReadable, bucketPolicy)
         newData == Data(targetAccountIds)
         merged == merge(existing, newData)
     IN GenerateTemplate(merged.allowedAccountIds)
  /\ UNCHANGED <<orgExists, bucketPolicy, runs, allTargetAccountIds, orgAction,
                 policyReadable, existedBefore, policyBefore>>

\* previewStackChanges returned or threw
OrgPreviewReturns ==
  /\ opc = "previewStackChanges"
  /\ opc' \in {"deployStack", "failed"}
  /\ UNCHANGED <<orgExists, bucketPolicy, runs, allTargetAccountIds, orgAction,
                 policyReadable, targetAccountIds, existedBefore, policyBefore>>

\* deployStack returned (the template is deployed, by create or by update,
\* whatever the plan's action) or threw (the stack keeps its policy)
OrgDeployStackReturns ==
  /\ opc = "deployStack"
  /\ \/ /\ orgExists' = TRUE
        /\ bucketPolicy' = createTerraformStateBucketPolicy(cicdAccountId, targetAccountIds)
        /\ opc' = "succeeded"
     \/ /\ opc' = "failed"
        /\ UNCHANGED <<orgExists, bucketPolicy>>
  /\ UNCHANGED <<runs, allTargetAccountIds, orgAction, policyReadable, targetAccountIds,
                 existedBefore, policyBefore>>

\* the run ends
BootstrapReturns ==
  /\ opc \in {"succeeded", "failed"}
  /\ opc' = "idle"
  /\ runs' = runs + 1
  /\ allTargetAccountIds' = <<>>
  /\ orgAction' = ""
  /\ policyReadable' = TRUE
  /\ targetAccountIds' = <<>>
  /\ existedBefore' = FALSE
  /\ policyBefore' = NoPolicy
  /\ UNCHANGED <<orgExists, bucketPolicy>>

\* =========================================================================
\* getStackStatus and previewStackChanges (src/src/aws/cloudformation.ts)
\* =========================================================================

\* previews of the same stack in a row
MaxPreviews == 2

VARIABLES
  pvStatus,        \* the stack's status at the provider; "NONE": no stack
  templateChanges, \* the template differs from the deployed one
  changeSet,       \* the change set of this preview at the provider
  leftChangeSets,  \* change sets of earlier previews the provider still holds
  ppc,             \* position of previewStackChanges: the call it is awaiting
  previews,        \* previews finished so far
  previewCalls,    \* the calls this preview has sent to the provider
  probeResponse,   \* what DescribeStacks answered to getStackStatus
  probed,          \* what getStackStatus returned or threw
  report,          \* what the preview logged about the stack
  pvThrown         \* the error previewStackChanges rejected with, "" if none

previewVars ==
  <<pvStatus, templateChanges, changeSet, leftChangeSets, ppc, previews, previewCalls,
    probeResponse, probed, report, pvThrown>>

NotFoundMessage == "Stack with id S does not exist"
NoChangesMessage == "The submitted information didn't contain changes"

\* errorMessage.includes('does not exist') on the messages above
IncludesDoesNotExist(m) == m = NotFoundMessage

\* errorMessage.includes('No updates are to be performed') ||
\* errorMessage.includes("didn't contain changes")
IncludesNoChanges(m) == m \in {NoUpdatesMessage, NoChangesMessage}

NoResponse == [error |-> "", stacks |-> <<>>]

\* what DescribeStacks can answer for a stack in status st: the stack, an
\* empty list or the not-found error when there is none, or another error
DescribeStacksResponses(st) ==
  (IF st = "NONE"
   THEN {[error |-> NotFoundMessage, stacks |-> <<>>], [error |-> "", stacks |-> <<>>]}
   ELSE {[error |-> "", stacks |-> <<[StackStatus |-> st, StackId |-> "arn:S"]>>]})
    \cup {[error |-> m, stacks |-> <<>>] : m \in ProviderErrors}

NotProbed == [threw |-> FALSE, error |-> "", exists |-> FALSE, status |-> "", stackId |-> ""]

getStackStatusMasking(response) ==
  IF response.stacks = <<>>
  THEN [threw |-> FALSE, error |-> "", exists |-> FALSE, status |-> "", stackId |-> ""]
  ELSE [threw |-> FALSE, error |-> "", exists |-> TRUE,
        status |-> response.stacks[1].StackStatus, stackId |-> response.stacks[1].StackId]

\* getStackStatus on the provider's answer: the value returned, or the error thrown
getStackStatus(response) ==
  IF response.error = ""
  THEN IF response.stacks = <<>>
       THEN [threw |-> FALSE, error |-> "", exists |-> FALSE, status |-> "", stackId |-> ""]
       ELSE [threw |-> FALSE, error |-> "", exists |-> TRUE,
             status |-> response.stacks[1].StackStatus,
             stackId |-> response.stacks[1].StackId]
  ELSE IF IncludesDoesNotExist(response.error)
       THEN [threw |-> FALSE, error |-> "", exists |-> FALSE, status |-> "", stackId |-> ""]
       ELSE [threw |-> TRUE, error |-> response.error, exists |-> FALSE, status |-> "",
             stackId |-> ""]

SkipPreviewNever(status) == FALSE
\* `if (!stackStatus.exists)`: no preview for a new stack
SkipPreview(status) == ~status.exists

PreviewInit ==
  /\ pvStatus \in RestingStatuses
  /\ templateChanges \in BOOLEAN
  /\ changeSet = "none"
  /\ leftChangeSets = 0
  /\ ppc = "start"
  /\ previews = 0
  /\ previewCalls = <<>>
  /\ probeResponse = NoResponse
  /\ probed = NotProbed
  /\ report = ""
  /\ pvThrown = ""

PreviewIdle ==
  /\ pvStatus = "NONE"
  /\ templateChanges = FALSE
  /\ changeSet = "none"
  /\ leftChangeSets = 0
  /\ ppc = "idle"
  /\ previews = 0
  /\ previewCalls = <<>>
  /\ probeResponse = NoResponse
  /\ probed = NotProbed
  /\ report = ""
  /\ pvThrown = ""

\* previewStackChanges up to `await getStackStatus(...)`
PreviewCalled ==
  /\ ppc = "start"
  /\ previewCalls' = <<"DescribeStacks">>
  /\ ppc' = "getStackStatus"
  /\ UNCHANGED <<pvStatus, templateChanges, changeSet, leftChangeSets, previews,
                 probeResponse, probed, report, pvThrown>>

\* getStackStatus returned or threw (the call is outside the try: its error
\* rejects previewStackChanges); a new stack is only reported
PreviewProbeReturns ==
  /\ ppc = "getStackStatus"
  /\ \E response \in DescribeStacksResponses(pvStatus) :
       LET status == getStackStatus(response)
       IN /\ probeResponse' = response
          /\ probed' = status
          /\ IF status.threw
             THEN /\ pvThrown' = status.error
                  /\ ppc' = "thrown"
                  /\ UNCHANGED <<report, previewCalls>>
             ELSE IF SkipPreview(status)
             THEN /\ report' = "will be created"
                  /\ ppc' = "returned"
                  /\ UNCHANGED <<pvThrown, previewCalls>>
             ELSE /\ previewCalls' = Append(previewCalls, "CreateChangeSet")
                  /\ ppc' = "createChangeSet"
                  /\ UNCHANGED <<pvThrown, report>>
  /\ UNCHANGED <<pvStatus, templateChanges, changeSet, leftChangeSets, previews>>

\* the catch of previewStackChanges: a no-changes message returns at once,
\* every other error goes on to the cleanup DeleteChangeSet
PreviewCatch(message) ==
  IF IncludesNoChanges(message)
  THEN /\ report' = "no changes"
       /\ ppc' = "returned"
       /\ UNCHANGED previewCalls
  ELSE /\ previewCalls' = Append(previewCalls, "DeleteChangeSet")
       /\ ppc' = "cleanupDeleteChangeSet"
       /\ UNCHANGED report

\* CreateChangeSet (type UPDATE) returned or threw
CreateChangeSetReturns ==
  /\ ppc = "createChangeSet"
  /\ \/ /\ \E m \in ProviderErrors : PreviewCatch(m)
        /\ UNCHANGED changeSet
     \/ /\ pvStatus \notin Updatable
        /\ PreviewCatch("ValidationError")
        /\ UNCHANGED changeSet
     \/ /\ pvStatus \in Updatable
        /\ changeSet' = "CREATE_IN_PROGRESS"
        /\ ppc' = "waitUntilChangeSetCreateComplete"
        /\ UNCHANGED <<report, previewCalls>>
  /\ UNCHANGED <<pvStatus, templateChanges, leftChangeSets, previews, probeResponse,
                 probed, pvThrown>>

\* waitUntilChangeSetCreateComplete resolved (the change set is ready) or
\* threw: the change set failed for want of changes or for another reason,
\* or 120 s passed
WaitChangeSetReturns ==
  /\ ppc = "waitUntilChangeSetCreateComplete"
  /\ \/ /\ templateChanges
        /\ changeSet' = "CREATE_COMPLETE"
        /\ previewCalls' = Append(previewCalls, "DescribeChangeSet")
        /\ ppc' = "describeChangeSet"
        /\ UNCHANGED report
     \/ /\ ~templateChanges
        /\ changeSet' = "FAILED"
        /\ PreviewCatch(NoChangesMessage)
     \/ /\ changeSet' = "FAILED"
        /\ PreviewCatch("Waiter failed")
     \/ /\ UNCHANGED changeSet
        /\ PreviewCatch("Waiter timed out")
  /\ UNCHANGED <<pvStatus, templateChanges, leftChangeSets, previews, probeResponse,
                 probed, pvThrown>>

\* DescribeChangeSet returned (the changes are logged) or threw
DescribeChangeSetReturns ==
  /\ ppc = "describeChangeSet"
  /\ \/ \E m \in ProviderErrors : PreviewCatch(m)
     \/ /\ report' = "changes"
        /\ previewCalls' = Append(previewCalls, "DeleteChangeSet")
        /\ ppc' = "deleteChangeSet"
  /\ UNCHANGED <<pvStatus, templateChanges, changeSet, leftChangeSets, previews,
                 probeResponse, probed, pvThrown>>

\* DeleteChangeSet at the end of the try returned or threw
DeleteChangeSetReturns ==
  /\ ppc = "deleteChangeSet"
  /\ \/ /\ \E m \in ProviderErrors : PreviewCatch(m)
        /\ UNCHANGED changeSet
     \/ /\ changeSet' = "deleted"
        /\ ppc' = "returned"
        /\ UNCHANGED <<report, previewCalls>>
  /\ UNCHANGED <<pvStatus, templateChanges, leftChangeSets, previews, probeResponse,
                 probed, pvThrown>>

\* the cleanup DeleteChangeSet returned or threw; its error is ignored
CleanupDeleteReturns ==
  /\ ppc = "cleanupDeleteChangeSet"
  /\ \/ /\ changeSet \in {"CREATE_IN_PROGRESS", "CREATE_COMPLETE", "FAILED"}
        /\ changeSet' = "deleted"
     \/ UNCHANGED changeSet
  /\ report' = IF report = "" THEN "could not preview" ELSE report
  /\ ppc' = "returned"
  /\ UNCHANGED <<pvStatus, templateChanges, leftChangeSets, previews, previewCalls,
                 probeResponse, probed, pvThrown>>

\* the next run previews the stack again, under a new change set name
PreviewAgain ==
  /\ ppc \in {"returned", "thrown"}
  /\ previews + 1 < MaxPreviews
  /\ previews' = previews + 1
  /\ leftChangeSets' =
       leftChangeSets
         + (IF changeSet \in {"CREATE_IN_PROGRESS", "CREATE_COMPLETE", "FAILED"} THEN 1 ELSE 0)
  /\ changeSet' = "none"
  /\ templateChanges' \in BOOLEAN
  /\ ppc' = "start"
  /\ previewCalls' = <<>>
  /\ probeResponse' = NoResponse
  /\ probed' = NotProbed
  /\ report' = ""
  /\ pvThrown' = ""
  /\ UNCHANGED pvStatus

\* =========================================================================
\* assumeRoleForAccount (src/src/aws/assume-role.ts)
\* =========================================================================

VARIABLES
  apc,             \* position of assumeRoleForAccount
  arTarget,        \* options.targetAccountId
  arCurrent,       \* options.currentAccountId (0: an account outside the plan)
  arRoleName,      \* options.targetRoleName, "" if not supplied
  attempts,        \* the assumeRole calls made, in order, with their outcome
  lastError,       \* lastError
  arResult         \* what assumeRoleForAccount returned or threw

assumeVars == <<apc, arTarget, arCurrent, arRoleName, attempts, lastError, arResult>>

DEFAULT_TARGET_ROLE == "OrganizationAccountAccessRole"
FALLBACK_TARGET_ROLE == "AWSControlTowerExecution"

\* the role names a caller can supply
SuppliedRoleNames == {"", "DeployerRole", DEFAULT_TARGET_ROLE, FALLBACK_TARGET_ROLE}

\* the errors of one assumeRole call
AssumeRoleErrors ==
  {"AccessDenied", "AssumeRole returned no credentials",
   "AssumeRole returned incomplete credentials"}

NoResult == [kind |-> "none", accountId |-> 0, roleName |-> ""]

SameAccountNever(target, current) == FALSE
\* `targetAccountId === currentAccountId`
SameAccount(target, current) == target = current

RolesToTryDefaults(targetRoleName) == <<DEFAULT_TARGET_ROLE, FALLBACK_TARGET_ROLE>>
\* rolesToTry
RolesToTry(targetRoleName) ==
  IF targetRoleName # "" THEN <<targetRoleName>>
  ELSE <<DEFAULT_TARGET_ROLE, FALLBACK_TARGET_ROLE>>

AssumeInit ==
  /\ apc = "start"
  /\ arTarget \in Accounts
  /\ arCurrent \in 0..MaxAccounts
  /\ arRoleName \in SuppliedRoleNames
  /\ attempts = <<>>
  /\ lastError = ""
  /\ arResult = NoResult

AssumeIdle ==
  /\ apc = "idle"
  /\ arTarget = cicdAccountId
  /\ arCurrent = cicdAccountId
  /\ arRoleName = ""
  /\ attempts = <<>>
  /\ lastError = ""
  /\ arResult = NoResult

\* the loop sends the assumeRole call for the role
Attempt(roleName) ==
  /\ attempts' = Append(attempts, [role |-> roleName, outcome |-> "pending"])
  /\ apc' = "assumeRole"

\* assumeRoleForAccount up to its first assumeRole call, or its return for
\* the current account
AssumeRoleForAccountCalled ==
  /\ apc = "start"
  /\ IF SameAccount(arTarget, arCurrent)
     THEN /\ arResult' = [kind |-> "null", accountId |-> 0, roleName |-> ""]
          /\ apc' = "returned"
          /\ UNCHANGED attempts
     ELSE /\ Attempt(RolesToTry(arRoleName)[1])
          /\ UNCHANGED arResult
  /\ UNCHANGED <<arTarget, arCurrent, arRoleName, lastError>>

\* one assumeRole call returned credentials or threw; on an error the loop
\* breaks for a supplied role, goes on to the next role, or ends
AssumeRoleAttemptReturns ==
  /\ apc = "assumeRole"
  /\ LET n == Len(attempts)
         roles == RolesToTry(arRoleName)
     IN \/ /\ attempts' = [attempts EXCEPT ![n].outcome = "ok"]
           /\ arResult' = [kind |-> "credentials", accountId |-> arTarget,
                           roleName |-> attempts[n].role]
           /\ apc' = "returned"
           /\ UNCHANGED lastError
        \/ \E err \in AssumeRoleErrors :
             /\ lastError' = err
             /\ IF arRoleName # "" \/ n = Len(roles)
                THEN /\ attempts' = [attempts EXCEPT ![n].outcome = "failed"]
                     /\ arResult' = [kind |-> "RoleAssumptionError", accountId |-> arTarget,
                                     roleName |-> IF arRoleName # "" THEN arRoleName
                                                  ELSE "OrganizationAccountAccessRole or AWSControlTowerExecution"]
                     /\ apc' = "thrown"
                ELSE /\ attempts' = Append([attempts EXCEPT ![n].outcome = "failed"],
                                           [role |-> roles[n + 1], outcome |-> "pending"])
                     /\ apc' = "assumeRole"
                     /\ UNCHANGED arResult
  /\ UNCHANGED <<arTarget, arCurrent, arRoleName>>

\* =========================================================================
\* buildDeploymentPlan (src/src/commands/bootstrap.ts)
\* =========================================================================

VARIABLES
  planInput,        \* the pipelines: the accounts of their stages, their artifacts
  planCurrent,      \* currentAccountId (0: an account outside the pipelines)
  bpc,              \* position of buildDeploymentPlan: the call it is awaiting
  bIdx,             \* the descriptor being built (0: none yet)
  planTodo,         \* the descriptors still to build, the one being built first
  cicdCredentials,  \* cicdCredentials
  descCredentials,  \* the credentials the descriptor's probe is made with
  planOut,          \* the descriptors built so far, in the order they are built
  lastProbe         \* how the probe of the descriptor added last went

planVars ==
  <<planInput, planCurrent, bpc, bIdx, planTodo, cicdCredentials, descCredentials,
    planOut, lastProbe>>

cicdRegion == "us-east-1"

\* stage.region: the stages of the CI/CD account are in the CI/CD region, the
\* stages of the other accounts in another one
StageRegion(account) == IF account = cicdAccountId THEN cicdRegion ELSE "eu-west-1"

\* seqs[1] \o seqs[2] \o ...
RECURSIVE Concat(_)
Concat(seqs) == IF seqs = <<>> THEN <<>> ELSE Head(seqs) \o Concat(Tail(seqs))

\* One pipeline as far as the stacks go: the accounts of its stages, and its
\* artifacts, each given by the source account of an import-type artifact
\* (0: an artifact that is no import, or an import without a source account).
\* A pipeline of size n has n stages and artifacts together.
PipelineInputs(size) ==
  {pl \in [stages : SeqsBetween(Accounts, 0, size),
           artifacts : SeqsBetween(0..MaxAccounts, 0, size)] :
     Len(pl.stages) + Len(pl.artifacts) <= size}

\* the lists of pipelines whose pipelines, stages and artifacts number at
\* most `budget` together
RECURSIVE PipelineLists(_)
PipelineLists(budget) ==
  IF budget <= 0 THEN {<<>>}
  ELSE {<<>>} \cup
       UNION {{<<pl>> \o rest :
                 rest \in PipelineLists(budget - 1 - Len(pl.stages) - Len(pl.artifacts))} :
              pl \in PipelineInputs(budget - 1)}

extractImportSourceAccountsNoSet(artifacts) == SelectSeq(artifacts, LAMBDA x : x # 0)

\* extractImportSourceAccounts: the distinct source accounts of the
\* import-type artifacts, in the order the Set first met them
extractImportSourceAccounts(artifacts) ==
  Dedupe(SelectSeq(artifacts, LAMBDA x : x # 0))

\* pipeline.stages of every pipeline, in pipeline order
StagesOf(input) ==
  Concat([pi \in DOMAIN input |->
            [k \in DOMAIN input[pi].stages |->
               [pipeline |-> pi, name |-> k, accountId |-> input[pi].stages[k]]]])

\* importSourceAccountsByPipeline in iteration order: the pipelines without
\* import source have no entry
ImportSourcesOf(input) ==
  Concat([pi \in DOMAIN input |->
            LET sources == extractImportSourceAccounts(input[pi].artifacts)
            IN [k \in DOMAIN sources |-> [pipeline |-> pi, accountId |-> sources[k]]]])

AccountIdsOf(entries) == [k \in DOMAIN entries |-> entries[k].accountId]

\* The inputs of buildDeploymentPlan: at least one pipeline.
PlanInputs ==
  {input \in PipelineLists(MaxPhase2Stacks) :
     /\ input # <<>>
     /\ FirstSeenOrder(AccountIdsOf(StagesOf(input)) \o AccountIdsOf(ImportSourcesOf(input)))}

NewAccountsNone(accounts, have) == <<>>

NewAccountsNoDedupe(accounts, have) == accounts

\* accountsWithStacks after addAccountStackIfNew over the accounts in order
RECURSIVE NewAccounts(_, _)
NewAccounts(accounts, have) ==
  IF accounts = <<>> THEN <<>>
  ELSE IF Head(accounts) \in have THEN NewAccounts(Tail(accounts), have)
  ELSE <<Head(accounts)>> \o NewAccounts(Tail(accounts), have \cup {Head(accounts)})

Descriptor(type, account, index, pipeline, name, region) ==
  [stackType |-> type, accountId |-> account, index |-> index,
   pipeline |-> pipeline, name |-> name, region |-> region]

\* the descriptors in the order buildDeploymentPlan builds them: Org,
\* Pipeline, Account (CI/CD account first), Stage, Import
Descriptors(input) ==
  LET stages == StagesOf(input)
      imports == ImportSourcesOf(input)
      others == NewAccounts(AccountIdsOf(stages) \o AccountIdsOf(imports), {cicdAccountId})
  IN <<Descriptor("org", cicdAccountId, 1, 0, 0, cicdRegion)>>
       \o [k \in DOMAIN input |-> Descriptor("pipeline", cicdAccountId, k, k, 0, cicdRegion)]
       \o <<Descriptor("account", cicdAccountId, 1, 0, 0, cicdRegion)>>
       \o [k \in DOMAIN others |-> Descriptor("account", others[k], k + 1, 0, 0, cicdRegion)]
       \o [k \in DOMAIN stages |->
             Descriptor("stage", stages[k].accountId, k, stages[k].pipeline,
                        stages[k].name, StageRegion(stages[k].accountId))]
       \o [k \in DOMAIN imports |->
             Descriptor("import", imports[k].accountId, k, imports[k].pipeline, 0, cicdRegion)]

\* the descriptors probed with cicdCredentials
UsesCicdCredentials(d) ==
  d.stackType \in {"org", "pipeline"} \/ (d.stackType = "account" /\ d.index = 1)

\* the try/catch around assumeRoleForAccount: `assumed?.credentials`, and
\* undefined (the ambient credentials) after an error
PlanningCredentials(outcome) == IF outcome = "credentials" THEN "assumed" ELSE "ambient"

determineStackActionStrict(status) ==
  IF status.threw THEN [threw |-> TRUE, action |-> ""]
  ELSE [threw |-> FALSE, action |-> IF status.exists THEN "UPDATE" ELSE "CREATE"]

\* determineStackAction on what getStackStatus returned or threw
determineStackAction(status) ==
  IF status.threw THEN [threw |-> FALSE, action |-> "CREATE"]
  ELSE [threw |-> FALSE, action |-> IF status.exists THEN "UPDATE" ELSE "CREATE"]

NoProbe == [assume |-> "none", lookedIn |-> 0, threw |-> FALSE, existsInOwn |-> FALSE]

PlanInit ==
  /\ planInput \in PlanInputs
  /\ planCurrent \in 0..1
  /\ bpc = "start"
  /\ bIdx = 0
  /\ planTodo = <<>>
  /\ cicdCredentials = "ambient"
  /\ descCredentials = "ambient"
  /\ planOut = <<>>
  /\ lastProbe = NoProbe

PlanIdle ==
  /\ planInput = <<[stages |-> <<>>, artifacts |-> <<>>]>>
  /\ planCurrent = cicdAccountId
  /\ bpc = "idle"
  /\ bIdx = 0
  /\ planTodo = <<>>
  /\ cicdCredentials = "ambient"
  /\ descCredentials = "ambient"
  /\ planOut = <<>>
  /\ lastProbe = NoProbe

\* buildDeploymentPlan goes on to descriptor k: its role assumption when the
\* descriptor has credentials of its own to get, else its probe
BuildDescriptor(k, d, cicd) ==
     /\ bIdx' = k
     /\ IF UsesCicdCredentials(d)
        THEN /\ descCredentials' = cicd
             /\ bpc' = "determineStackAction"
        ELSE IF d.accountId = planCurrent
        THEN /\ descCredentials' = "ambient"
             /\ bpc' = "determineStackAction"
        ELSE /\ descCredentials' = "ambient"
             /\ bpc' = "assumeRoleForAccount"

\* buildDeploymentPlan up to its first await
BuildDeploymentPlanCalled ==
  /\ bpc = "start"
  /\ planTodo' = Descriptors(planInput)
  /\ IF cicdAccountId # planCurrent
     THEN /\ bpc' = "assumeRoleForAccount"
          /\ UNCHANGED <<bIdx, cicdCredentials, descCredentials>>
     ELSE /\ cicdCredentials' = "ambient"
          /\ BuildDescriptor(1, Head(Descriptors(planInput)), "ambient")
  /\ UNCHANGED <<planInput, planCurrent, planOut, lastProbe>>

\* assumeRoleForAccount returned or threw; the error is caught
PlanAssumeRoleReturns ==
  /\ bpc = "assumeRoleForAccount"
  /\ \E outcome \in {"credentials", "RoleAssumptionError"} :
       IF bIdx = 0
       THEN /\ cicdCredentials' = PlanningCredentials(outcome)
            /\ BuildDescriptor(1, Head(planTodo), PlanningCredentials(outcome))
       ELSE /\ descCredentials' = PlanningCredentials(outcome)
            /\ bpc' = "determineStackAction"
            /\ UNCHANGED <<bIdx, cicdCredentials>>
  /\ UNCHANGED <<planInput, planCurrent, planTodo, planOut, lastProbe>>

\* the account whose stacks a probe made with these credentials sees
LookedIn(d, credentials) == IF credentials = "assumed" THEN d.accountId ELSE planCurrent

\* determineStackAction returned: the descriptor is added and the next one
\* begun. st is the stack of that name in the account the probe looks in,
\* own whether the descriptor's own account has one.
PlanProbeReturns ==
  /\ bpc = "determineStackAction"
  /\ LET d == Head(planTodo)
     IN \E st \in {"NONE", "CREATE_COMPLETE"}, own \in BOOLEAN :
          /\ LookedIn(d, descCredentials) = d.accountId => own = (st # "NONE")
          /\ \E response \in DescribeStacksResponses(st) :
            LET status == getStackStatus(response)
                r == determineStackAction(status)
            IN IF r.threw
               THEN /\ bpc' = "thrown"
                    /\ UNCHANGED <<bIdx, planTodo, cicdCredentials, descCredentials,
                                   planOut, lastProbe>>
               ELSE /\ planOut' = Append(planOut, [stackType |-> d.stackType,
                                                   accountId |-> d.accountId,
                                                   region |-> d.region,
                                                   action |-> r.action,
                                                   pipeline |-> d.pipeline,
                                                   name |-> d.name])
                    /\ lastProbe' =
                         [assume |-> IF d.accountId = planCurrent THEN "none"
                                     ELSE IF descCredentials = "assumed" THEN "credentials"
                                     ELSE "RoleAssumptionError",
                          lookedIn |-> LookedIn(d, descCredentials),
                          threw |-> status.threw,
                          existsInOwn |-> own]
                    /\ planTodo' = Tail(planTodo)
                    /\ IF Tail(planTodo) = <<>>
                       THEN /\ bpc' = "returned"
                            /\ UNCHANGED <<bIdx, cicdCredentials, descCredentials>>
                       ELSE /\ BuildDescriptor(bIdx + 1, Head(Tail(planTodo)), cicdCredentials)
                            /\ UNCHANGED cicdCredentials
  /\ UNCHANGED <<planInput, planCurrent>>

\* =========================================================================
\* BucketPolicyMergeStrategy and executeMerge (src/src/merge/index.ts)
\* =========================================================================

\* ids of the lists drawn as inputs
MaxIds == 2

\* Account ids are strings, here sequences of characters.
Digits == {"0", "1", "2", "3", "4", "5", "6", "7", "8", "9"}

Rep(c, n) == [i \in 1..n |-> c]

DigitChar(d) == <<"0", "1", "2", "3", "4", "5", "6", "7", "8", "9">>[d + 1]

\* the UTF-16 code unit of a character
CharCode(c) ==
  CASE c = "0" -> 48 [] c = "1" -> 49 [] c = "2" -> 50 [] c = "3" -> 51 [] c = "4" -> 52
    [] c = "5" -> 53 [] c = "6" -> 54 [] c = "7" -> 55 [] c = "8" -> 56 [] c = "9" -> 57
    [] c = "a" -> 97

\* a < b as Array.prototype.sort() compares strings without a comparator
LexLess(a, b) ==
  \/ /\ Len(a) < Len(b)
     /\ \A i \in 1..Len(a) : a[i] = b[i]
  \/ \E k \in 1..Len(a) :
       /\ k <= Len(b)
       /\ \A i \in 1..(k - 1) : a[i] = b[i]
       /\ CharCode(a[k]) < CharCode(b[k])

\* Array.from(set).sort()
SortLex(S) ==
  [k \in 1..Cardinality(S) |->
     CHOOSE x \in S : Cardinality({y \in S : LexLess(y, x)}) = k - 1]

\* a "$" that also matches before a final line terminator
isValidAwsAccountIdBeforeNewline(accountId) ==
  \/ Len(accountId) = 12 /\ \A i \in DOMAIN accountId : accountId[i] \in Digits
  \/ /\ Len(accountId) = 13 /\ accountId[13] = "\n"
     /\ \A i \in 1..12 : accountId[i] \in Digits

\* AWS_ACCOUNT_ID_REGEX.test(accountId), /^\d{12}$/
isValidAwsAccountId(accountId) ==
  Len(accountId) = 12 /\ \A i \in DOMAIN accountId : accountId[i] \in Digits

\* The ids of the inputs: two well-formed ones, one of 11 digits, one of 13,
\* one with a letter. "99999999999" sorts after "222222222222".
ValidId1 == Rep("1", 12)
ValidId2 == Rep("2", 12)
IdPool == {ValidId1, ValidId2, Rep("9", 11), Rep("1", 13), Rep("1", 11) \o <<"a">>}

\* The strings validateAwsAccountId is given: well-formed ids, the empty
\* string, 11 and 13 digits, and twelve or thirteen characters of which one
\* at the front, in the middle or at the end is not a digit.
OtherChars == {"a", "-", " ", "\n", ";", "<"}
AccountIdStrings ==
  {ValidId1, ValidId2, Rep("0", 12), <<>>, Rep("9", 11), Rep("1", 13)}
    \cup {[Rep("1", 12) EXCEPT ![k] = c] : k \in {1, 5, 12}, c \in OtherChars}
    \cup {Rep("1", 12) \o <<c>> : c \in OtherChars}
    \cup {<<c>> \o Rep("1", 12) : c \in OtherChars}
    \cup {Rep(c, 12) : c \in OtherChars}

\* n well-formed ids, all different
NumberedId(n) == Rep("3", 10) \o <<DigitChar(n \div 10), DigitChar(n % 10)>>
ManyIds(n) == [i \in 1..n |-> NumberedId(i)]

\* the lists of ids drawn as inputs
IdLists == SeqsBetween(IdPool, 0, MaxIds)

\* `value | undefined` for a list that is undefined when empty
Optional(list) == [defined |-> list # <<>>, items |-> list]

NoCollectError == [name |-> "", about |-> "", slug |-> 0, value |-> <<>>]

\* MergeContext as far as collectNew reads it
Contexts ==
  {[cicdAccountId |-> c, pipelines |-> pls] :
     c \in {ValidId1, Rep("1", 13)},
     pls \in SeqsBetween({[slug |-> 1, targetAccountIds |-> l] : l \in IdLists}, 0, 1)
             \cup {<<[slug |-> 1, targetAccountIds |-> l1], [slug |-> 2, targetAccountIds |-> l2]>> :
                     l1 \in SeqsBetween({ValidId1, ValidId2}, 0, 1),
                     l2 \in SeqsBetween(IdPool, 1, 1)}}

collectNewSkipInvalid(context) ==
  LET targets == Concat([pi \in DOMAIN context.pipelines |->
                           context.pipelines[pi].targetAccountIds])
  IN [threw |-> FALSE, error |-> NoCollectError,
      value |-> Data(Dedupe(SelectSeq(<<context.cicdAccountId>> \o targets,
                                      isValidAwsAccountId)))]

\* collectNew: the ids of the context each once, or the error of the first
\* id that is not valid
collectNew(context) ==
  LET targets == Concat([pi \in DOMAIN context.pipelines |->
                           [k \in DOMAIN context.pipelines[pi].targetAccountIds |->
                              [slug |-> context.pipelines[pi].slug,
                               accountId |-> context.pipelines[pi].targetAccountIds[k]]]])
      bad == SelectSeq(targets, LAMBDA t : ~isValidAwsAccountId(t.accountId))
  IN IF ~isValidAwsAccountId(context.cicdAccountId)
     THEN [threw |-> TRUE,
           error |-> [name |-> "Error", about |-> "Invalid CI/CD account ID", slug |-> 0,
                      value |-> context.cicdAccountId],
           value |-> Absent]
     ELSE IF bad # <<>>
     THEN [threw |-> TRUE,
           error |-> [name |-> "Error", about |-> "Invalid target account ID in pipeline",
                      slug |-> bad[1].slug, value |-> bad[1].accountId],
           value |-> Absent]
     ELSE [threw |-> FALSE, error |-> NoCollectError,
           value |-> Data(Dedupe(<<context.cicdAccountId>> \o AccountIdsOf(targets)))]

mergeIdsUnsorted(existing, newData) ==
  Data(Dedupe((IF existing.present THEN existing.allowedAccountIds ELSE <<>>)
                \o newData.allowedAccountIds))

\* BucketPolicyMergeStrategy.merge over ids that are strings
mergeIds(existing, newData) ==
  Data(SortLex((IF existing.present THEN Range(existing.allowedAccountIds) ELSE {})
                 \cup Range(newData.allowedAccountIds)))

validateWarnsAtFifty(result) ==
  LET bad == SelectSeq(result.allowedAccountIds, LAMBDA id : ~isValidAwsAccountId(id))
  IN [valid |-> bad = <<>>,
      errors |-> Optional(bad),
      warnings |-> Optional(IF Len(result.allowedAccountIds) >= 50
                            THEN <<"Large number of accounts">> ELSE <<>>)]

\* BucketPolicyMergeStrategy.validate: an error per id that is not 12 digits,
\* a warning above 50 ids
validate(result) ==
  LET bad == SelectSeq(result.allowedAccountIds, LAMBDA id : ~isValidAwsAccountId(id))
  IN [valid |-> bad = <<>>,
      errors |-> Optional(bad),
      warnings |-> Optional(IF Len(result.allowedAccountIds) > 50
                            THEN <<"Large number of accounts">> ELSE <<>>)]

\* A principal of a statement: a string of the form arn:aws:<service>::
\* <account>:<resource>, another string, or a value that is no string.
ArnPrincipal(service, account, resource) ==
  [kind |-> "arn", service |-> service, text |-> account, resource |-> resource]
TextPrincipal(text) == [kind |-> "text", service |-> "", text |-> text, resource |-> ""]
NonStringPrincipal == [kind |-> "nonstring", service |-> "", text |-> <<>>, resource |-> ""]

PrincipalPool ==
  {ArnPrincipal("iam", ValidId1, "root"),
   ArnPrincipal("iam", ValidId2, "role/deployer"),
   ArnPrincipal("iam", ValidId2, "user/alice"),
   ArnPrincipal("iam", Rep("1", 13), "root"),
   ArnPrincipal("sts", ValidId2, "assumed-role/deployer"),
   TextPrincipal(ValidId2),
   TextPrincipal(Rep("9", 11)),
   TextPrincipal(<<"*">>),
   NonStringPrincipal}

\* Statement[i]: no object, an object without Principal.AWS, or one with it
\* (a single string counts as a list of one)
AwsStatement(principals) == [kind |-> "aws", principals |-> principals]
NoAwsStatement == [kind |-> "noAws", principals |-> <<>>]
NotObjectStatement == [kind |-> "notObject", principals |-> <<>>]

\* response.Policy: text that does not parse, or what it parses to
Document(statements) == [kind |-> "document", statements |-> statements]
UnparsablePolicy == [kind |-> "unparsable", statements |-> <<>>]
NotObjectPolicy == [kind |-> "notObject", statements |-> <<>>]
NoStatementArrayPolicy == [kind |-> "noStatementArray", statements |-> <<>>]
NoPolicyField == [kind |-> "none", statements |-> <<>>]

\* the policies with one statement of at most n principals, and some others
PolicyTexts(n) ==
  {UnparsablePolicy, NotObjectPolicy, NoStatementArrayPolicy, NoPolicyField, Document(<<>>),
   Document(<<NotObjectStatement, NoAwsStatement,
              AwsStatement(<<ArnPrincipal("iam", ValidId2, "role/deployer"),
                             TextPrincipal(Rep("9", 11)),
                             ArnPrincipal("iam", ValidId2, "root")>>),
              AwsStatement(<<ArnPrincipal("iam", ValidId1, "root")>>)>>)}
    \cup {Document(<<AwsStatement(ps)>>) : ps \in SeqsBetween(PrincipalPool, 1, n)}

\* what client.send(new GetBucketPolicyCommand(...)) returns or throws
GetBucketPolicyErrors == {"NoSuchBucketPolicy", "NoSuchBucket", "AccessDenied", "NetworkingError"}

GetBucketPolicyResponses(n) ==
  {[error |-> err, policy |-> NoPolicyField] : err \in GetBucketPolicyErrors}
    \cup {[error |-> "", policy |-> pol] : pol \in PolicyTexts(n)}

ExtractedIdOfAnyText(p) == p.text

\* p.match(/arn:aws:iam::(\d{12}):/), else /^\d{12}$/.test(p); <<>>: null
ExtractedIdOf(p) ==
  IF p.kind = "arn" /\ p.service = "iam" /\ isValidAwsAccountId(p.text) THEN p.text
  ELSE IF p.kind = "text" /\ isValidAwsAccountId(p.text) THEN p.text
  ELSE <<>>

\* the loop body: the id pushed for one principal, if any
PushedIds(p) ==
  LET extractedId == ExtractedIdOf(p)
  IN IF extractedId # <<>> /\ isValidAwsAccountId(extractedId) THEN <<extractedId>> ELSE <<>>

\* extractAccountIdsFromPolicy of a parsed policy: the ids, or the TypeError
\* of p.match on a principal that is no string
extractAccountIds(policy) ==
  IF policy.kind # "document" THEN [threw |-> FALSE, error |-> "", ids |-> <<>>]
  ELSE LET principals ==
             Concat([i \in DOMAIN policy.statements |->
                       IF policy.statements[i].kind = "aws"
                       THEN policy.statements[i].principals ELSE <<>>])
       IN IF \E i \in DOMAIN principals : principals[i].kind = "nonstring"
          THEN [threw |-> TRUE, error |-> "TypeError", ids |-> <<>>]
          ELSE [threw |-> FALSE, error |-> "",
                ids |-> Dedupe(Concat([i \in DOMAIN principals |-> PushedIds(principals[i])]))]

\* the try block of extractExisting
ExtractExistingTry(response) ==
  IF response.error # "" THEN [threw |-> TRUE, error |-> response.error, value |-> Absent]
  ELSE IF response.policy.kind = "none" THEN [threw |-> FALSE, error |-> "", value |-> Absent]
  ELSE IF response.policy.kind = "unparsable"
  THEN [threw |-> TRUE, error |-> "SyntaxError", value |-> Absent]
  ELSE LET accountIds == extractAccountIds(response.policy)
       IN IF accountIds.threw
          THEN [threw |-> TRUE, error |-> accountIds.error, value |-> Absent]
          ELSE [threw |-> FALSE, error |-> "", value |-> Data(accountIds.ids)]

extractExistingRethrows(bucketName, response) ==
  LET body == ExtractExistingTry(response)
  IN IF bucketName = "" THEN [threw |-> FALSE, error |-> "", value |-> Absent]
     ELSE IF body.threw /\ body.error \in {"NoSuchBucketPolicy", "NoSuchBucket"}
     THEN [threw |-> FALSE, error |-> "", value |-> Absent]
     ELSE body

\* extractExisting of a strategy configured with bucketName ("": null): the
\* catch returns null for every error
extractExistingFrom(bucketName, response) ==
  LET body == ExtractExistingTry(response)
  IN IF bucketName = "" THEN [threw |-> FALSE, error |-> "", value |-> Absent]
     ELSE IF body.threw THEN [threw |-> FALSE, error |-> "", value |-> Absent]
     ELSE body

\* executeMerge for the bucket-policy strategy: what it returns or throws
\* and the warnings it logs
executeMerge(strategyId, hasExistingStack, bucketName, response, context) ==
  LET existing == IF hasExistingStack THEN extractExistingFrom(bucketName, response)
                  ELSE [threw |-> FALSE, error |-> "", value |-> Absent]
      newData == collectNew(context)
      merged == mergeIds(existing.value, newData.value)
      validation == validate(merged)
      none == [threw |-> FALSE, error |-> "", about |-> NoCollectError, value |-> Absent,
               validated |-> FALSE, warned |-> FALSE]
  IN IF strategyId # "terraform-state-bucket-policy"
     THEN [none EXCEPT !.threw = TRUE, !.error = "Unknown merge strategy"]
     ELSE IF existing.threw
     THEN [none EXCEPT !.threw = TRUE, !.error = existing.error]
     ELSE IF newData.threw
     THEN [none EXCEPT !.threw = TRUE, !.error = "collectNew", !.about = newData.error]
     ELSE IF ~validation.valid
     THEN [none EXCEPT !.threw = TRUE, !.error = "Merge validation failed",
                       !.validated = TRUE, !.warned = validation.warnings.defined]
     ELSE [none EXCEPT !.value = merged, !.validated = TRUE,
                       !.warned = validation.warnings.defined]

VARIABLES
  strategyBucketName,   \* bucketPolicyStrategy.bucketName ("": null)
  strategyCredentials,  \* bucketPolicyStrategy.credentials ("none": undefined)
  mCall,                \* the operation called last ("none": nothing pending)
  mpc,                  \* its position: the call it awaits, or how it ended
  mArgs,                \* its arguments and what the provider answers it
  mOut,                 \* what a strategy method or executeMerge returned or threw
  mCredentials,         \* deployOrgStack: credentials
  mTargetAccountIds,    \* deployOrgStack: targetAccountIds
  mValidated,           \* deployOrgStack: validate was called on the merged result
  mTemplate             \* the ids generateOrgStackTemplate was given

mergeVars ==
  <<strategyBucketName, strategyCredentials, mCall, mpc, mArgs, mOut, mCredentials,
    mTargetAccountIds, mValidated, mTemplate>>

NoArgs ==
  [existing |-> Absent, newData |-> <<>>,
   context |-> [cicdAccountId |-> <<>>, pipelines |-> <<>>],
   response |-> [error |-> "", policy |-> NoPolicyField],
   strategyId |-> "", hasStack |-> FALSE, action |-> "", crossAccount |-> FALSE,
   accountId |-> <<>>]

NoOut == [threw |-> FALSE]

\* plan.orgStack.targetAccountIds: Array.from of a Set, of ids nothing has
\* validated
PlanTargetLists ==
  {l \in SeqsBetween(IdPool, 0, MaxIds) : \A i, j \in DOMAIN l : l[i] = l[j] => i = j}

\* the lists validate is called with: the short ones, and long ones around
\* the length it warns about
ValidateInputs ==
  IdLists \cup {ManyIds(n) \o l : n \in 48..51, l \in SeqsBetween(IdPool, 0, MaxIds)}

MergeInit ==
  /\ strategyBucketName = ""
  /\ strategyCredentials = "none"
  /\ mCall = "none"
  /\ mpc = "idle"
  /\ mArgs = NoArgs
  /\ mOut = NoOut
  /\ mCredentials = "none"
  /\ mTargetAccountIds = <<>>
  /\ mValidated = FALSE
  /\ mTemplate = Absent

MergeIdle ==
  /\ strategyBucketName = ""
  /\ strategyCredentials = "none"
  /\ mCall = "none"
  /\ mpc = "off"
  /\ mArgs = NoArgs
  /\ mOut = NoOut
  /\ mCredentials = "none"
  /\ mTargetAccountIds = <<>>
  /\ mValidated = FALSE
  /\ mTemplate = Absent

Ended(out) == IF out.threw THEN "thrown" ELSE "returned"

\* strategy.collectNew(context)
CollectNewCalled ==
  /\ mCall = "none" /\ mpc = "idle"
  /\ \E context \in Contexts :
       /\ mArgs' = [NoArgs EXCEPT !.context = context]
       /\ mOut' = collectNew(context)
       /\ mpc' = Ended(collectNew(context))
  /\ mCall' = "collectNew"
  /\ UNCHANGED <<strategyBucketName, strategyCredentials, mCredentials, mTargetAccountIds,
                 mValidated, mTemplate>>

\* strategy.merge(existing, newData)
MergeCalled ==
  /\ mCall = "none" /\ mpc = "idle"
  /\ \E existing \in {Absent} \cup {Data(l) : l \in IdLists}, newData \in IdLists :
       /\ Len(existing.allowedAccountIds) + Len(newData) <= MaxIds + 1
       /\ mArgs' = [NoArgs EXCEPT !.existing = existing, !.newData = newData]
       /\ mOut' = [threw |-> FALSE, value |-> mergeIds(existing, Data(newData))]
  /\ mpc' = "returned"
  /\ mCall' = "merge"
  /\ UNCHANGED <<strategyBucketName, strategyCredentials, mCredentials, mTargetAccountIds,
                 mValidated, mTemplate>>

\* strategy.validate(result)
ValidateCalled ==
  /\ mCall = "none" /\ mpc = "idle"
  /\ \E ids \in ValidateInputs :
       /\ mArgs' = [NoArgs EXCEPT !.newData = ids]
       /\ mOut' = [threw |-> FALSE, value |-> validate(Data(ids))]
  /\ mpc' = "returned"
  /\ mCall' = "validate"
  /\ UNCHANGED <<strategyBucketName, strategyCredentials, mCredentials, mTargetAccountIds,
                 mValidated, mTemplate>>

\* validateAwsAccountId(accountId): throws when isValidAwsAccountId says no
ValidateAwsAccountIdCalled ==
  /\ mCall = "none" /\ mpc = "idle"
  /\ \E accountId \in AccountIdStrings :
       /\ mArgs' = [NoArgs EXCEPT !.accountId = accountId]
       /\ mOut' = [threw |-> ~isValidAwsAccountId(accountId),
                   value |-> isValidAwsAccountId(accountId)]
  /\ mpc' = IF mOut'.threw THEN "thrown" ELSE "returned"
  /\ mCall' = "validateAwsAccountId"
  /\ UNCHANGED <<strategyBucketName, strategyCredentials, mCredentials, mTargetAccountIds,
                 mValidated, mTemplate>>

\* strategy.extractExisting(stackResources), GetBucketPolicy answered
ExtractExistingCalled ==
  /\ mCall = "none" /\ mpc = "idle"
  /\ \E response \in GetBucketPolicyResponses(MaxIds) :
       /\ mArgs' = [NoArgs EXCEPT !.response = response]
       /\ mOut' = extractExistingFrom(strategyBucketName, response)
       /\ mpc' = Ended(extractExistingFrom(strategyBucketName, response))
  /\ mCall' = "extractExisting"
  /\ UNCHANGED <<strategyBucketName, strategyCredentials, mCredentials, mTargetAccountIds,
                 mValidated, mTemplate>>

\* executeMerge(strategyId, existingStack, context)
ExecuteMergeCalled ==
  /\ mCall = "none" /\ mpc = "idle"
  /\ \E strategyId \in {"terraform-state-bucket-policy", "unknown"}, hasStack \in BOOLEAN,
        response \in GetBucketPolicyResponses(0), context \in Contexts :
       LET out == executeMerge(strategyId, hasStack, strategyBucketName, response, context)
       IN /\ mArgs' = [NoArgs EXCEPT !.strategyId = strategyId, !.hasStack = hasStack,
                                     !.response = response, !.context = context]
          /\ mOut' = out
          /\ mpc' = Ended(out)
  /\ mCall' = "executeMerge"
  /\ UNCHANGED <<strategyBucketName, strategyCredentials, mCredentials, mTargetAccountIds,
                 mValidated, mTemplate>>

\* generateOrgStackTemplate with the list, then previewStackChanges is called
OrgTemplate(ids) ==
  /\ mTemplate' = Data(ids)
  /\ mpc' = "previewStackChanges"

\* deployOrgStack from configure on: to readExistingStack when the plan says
\* UPDATE, else to the template
OrgMergeOrTemplate(credentials) ==
  IF mArgs'.action = "UPDATE"
  THEN /\ strategyBucketName' = "terraform-state-bucket"
       /\ strategyCredentials' = credentials
       /\ mpc' = "readExistingStack"
       /\ UNCHANGED mTemplate
  ELSE /\ OrgTemplate(mArgs'.newData)
       /\ UNCHANGED <<strategyBucketName, strategyCredentials>>

\* deployOrgStack is called, up to its first await
DeployOrgStackBegins ==
  /\ mCall = "none" /\ mpc = "idle"
  /\ \E action \in {"CREATE", "UPDATE"}, crossAccount \in BOOLEAN, ids \in PlanTargetLists :
       mArgs' = [NoArgs EXCEPT !.action = action, !.crossAccount = crossAccount,
                               !.newData = ids]
  /\ mCall' = "deployOrgStack"
  /\ mOut' = NoOut
  /\ mTargetAccountIds' = mArgs'.newData
  /\ mValidated' = FALSE
  /\ IF mArgs'.crossAccount
     THEN /\ mpc' = "assumeRoleForAccount"
          /\ UNCHANGED <<strategyBucketName, strategyCredentials, mCredentials, mTemplate>>
     ELSE /\ mCredentials' = "none"
          /\ OrgMergeOrTemplate("none")

\* assumeRoleForAccount returned credentials or threw
OrgAssumeRoleReturns ==
  /\ mCall = "deployOrgStack" /\ mpc = "assumeRoleForAccount"
  /\ mArgs' = mArgs
  /\ \/ /\ mCredentials' = "assumed"
        /\ OrgMergeOrTemplate("assumed")
        /\ UNCHANGED mOut
     \/ /\ mpc' = "thrown"
        /\ mOut' = [threw |-> TRUE, error |-> "RoleAssumptionError"]
        /\ UNCHANGED <<strategyBucketName, strategyCredentials, mCredentials, mTemplate>>
  /\ UNCHANGED <<mCall, mTargetAccountIds, mValidated>>

\* readExistingStack returned the stack, or null
OrgReadExistingStackReturns ==
  /\ mCall = "deployOrgStack" /\ mpc = "readExistingStack"
  /\ \E existingStack \in BOOLEAN :
       /\ mArgs' = [mArgs EXCEPT !.hasStack = existingStack]
       /\ IF existingStack
          THEN /\ mpc' = "extractExisting"
               /\ UNCHANGED mTemplate
          ELSE OrgTemplate(mTargetAccountIds)
  /\ UNCHANGED <<strategyBucketName, strategyCredentials, mCall, mOut, mCredentials,
                 mTargetAccountIds, mValidated>>

\* strategy.extractExisting returned or threw; merge; the template
OrgExtractExistingReturns ==
  /\ mCall = "deployOrgStack" /\ mpc = "extractExisting"
  /\ \E response \in GetBucketPolicyResponses(1) :
       LET existing == extractExistingFrom(strategyBucketName, response)
           merged == mergeIds(existing.value, Data(mTargetAccountIds))
       IN /\ mArgs' = [mArgs EXCEPT !.response = response, !.existing = existing.value]
          /\ IF existing.threw
             THEN /\ mpc' = "thrown"
                  /\ mOut' = [threw |-> TRUE, error |-> existing.error]
                  /\ UNCHANGED <<mTargetAccountIds, mTemplate>>
             ELSE /\ mTargetAccountIds' = merged.allowedAccountIds
                  /\ OrgTemplate(merged.allowedAccountIds)
                  /\ UNCHANGED mOut
  /\ UNCHANGED <<strategyBucketName, strategyCredentials, mCall, mCredentials, mValidated>>

\* previewStackChanges returned (it never throws); deployStack is called
OrgMergePreviewReturns ==
  /\ mCall = "deployOrgStack" /\ mpc = "previewStackChanges"
  /\ mpc' = "deployStack"
  /\ UNCHANGED <<strategyBucketName, strategyCredentials, mCall, mArgs, mOut, mCredentials,
                 mTargetAccountIds, mValidated, mTemplate>>

\* deployStack returned or threw
OrgMergeDeployStackReturns ==
  /\ mCall = "deployOrgStack" /\ mpc = "deployStack"
  /\ \/ mpc' = "returned" /\ UNCHANGED mOut
     \/ mpc' = "thrown" /\ mOut' = [threw |-> TRUE, error |-> "CloudFormationError"]
  /\ UNCHANGED <<strategyBucketName, strategyCredentials, mCall, mArgs, mCredentials,
                 mTargetAccountIds, mValidated, mTemplate>>

\* the caller has the result; the strategy instance stays as it is
MergeCallEnds ==
  /\ mpc \in {"returned", "thrown"}
  /\ mCall' = "none"
  /\ mpc' = "idle"
  /\ mArgs' = NoArgs
  /\ mOut' = NoOut
  /\ mCredentials' = "none"
  /\ mTargetAccountIds' = <<>>
  /\ mValidated' = FALSE
  /\ mTemplate' = Absent
  /\ UNCHANGED <<strategyBucketName, strategyCredentials>>

\* =========================================================================
\* One phase of executeDeployment with its progress registry
\* (src/src/commands/bootstrap.ts, src/src/utils/logger.ts, naming)
\* =========================================================================

CF_STACK_MAX_LENGTH == 128

\* "DevRamps-"
DevRampsPrefix == <<"D", "e", "v", "R", "a", "m", "p", "s", "-">>

\* truncateName: a name within the limit is returned as it is. A longer name
\* is cut and gets "-" and a 6-character hash of the whole name; the hash is
\* left as one token, no name of the pools below is that long.
truncateName(name, maxLength) ==
  IF Len(name) <= maxLength THEN name
  ELSE SubSeq(name, 1, maxLength - 6 - 1) \o <<"-", "hash">>

getOrgStackName(orgSlug) ==
  truncateName(DevRampsPrefix \o orgSlug \o <<"-", "O", "r", "g">>, CF_STACK_MAX_LENGTH)

getPipelineStackName(pipelineSlug) ==
  truncateName(DevRampsPrefix \o pipelineSlug
                 \o <<"-", "P", "i", "p", "e", "l", "i", "n", "e">>, CF_STACK_MAX_LENGTH)

getStageStackName(pipelineSlug, stageName) ==
  truncateName(DevRampsPrefix \o pipelineSlug \o <<"-">> \o stageName
                 \o <<"-", "S", "t", "a", "g", "e">>, CF_STACK_MAX_LENGTH)

getAccountStackName ==
  DevRampsPrefix \o <<"A", "c", "c", "o", "u", "n", "t", "-",
                      "B", "o", "o", "t", "s", "t", "r", "a", "p">>

getImportStackName(pipelineSlug) ==
  truncateName(DevRampsPrefix \o pipelineSlug
                 \o <<"-", "I", "m", "p", "o", "r", "t">>, CF_STACK_MAX_LENGTH)

\* `${stackName}:${accountId}:${region}`; the region is one token
getStackKey(name, accountId, region) == name \o <<":">> \o accountId \o <<":", region>>

\* ---- the pipelines of a run
\* authData: the CI/CD account and the organisation's slug
CicdAccount == ValidId1
OrgSlug == <<"o">>

\* pipeline slugs (directory names) and stages; "a" with stage "b-c" and
\* "a-b" with stage "c" are different stages
SlugPool == {<<"a">>, <<"a", "-", "b">>}

StagePool ==
  {[name |-> <<"c">>, account_id |-> CicdAccount, region |-> cicdRegion],
   [name |-> <<"b", "-", "c">>, account_id |-> CicdAccount, region |-> cicdRegion],
   [name |-> <<"c">>, account_id |-> ValidId2, region |-> "eu-west-1"]}

\* a parsed pipeline has at least one stage; `imports` are the source accounts
\* extractImportSourceAccounts returns for it
PipelinePool(size) ==
  {pl \in [slug : SlugPool,
           stages : SeqsBetween(StagePool, 1, size - 1),
           imports : SeqsBetween({ValidId2}, 0, 1)] :
     1 + Len(pl.stages) + Len(pl.imports) <= size}

PipelineSize(pl) == 1 + Len(pl.stages) + Len(pl.imports)

\* the pipelines of a run: different directories, MaxPhase2Stacks Pipeline,
\* Stage and Import stacks at most
RunPipelines ==
  {<<pl>> : pl \in PipelinePool(MaxPhase2Stacks)}
    \cup {pq \in PipelinePool(MaxPhase2Stacks - 2) \X PipelinePool(MaxPhase2Stacks - 2) :
            /\ pq[1].slug # pq[2].slug
            /\ PipelineSize(pq[1]) + PipelineSize(pq[2]) <= MaxPhase2Stacks}

StackOf(type, name, accountId, region) ==
  [stackType |-> type, stackName |-> name, accountId |-> accountId, region |-> region]

\* plan.accountStacks as buildDeploymentPlan builds it from the pipelines
AccountStacksOf(pipelines) ==
  LET stageAccounts ==
        Concat([p \in DOMAIN pipelines |->
                  [k \in DOMAIN pipelines[p].stages |-> pipelines[p].stages[k].account_id]])
      importAccounts == Concat([p \in DOMAIN pipelines |-> pipelines[p].imports])
      accounts == <<CicdAccount>> \o NewAccounts(stageAccounts \o importAccounts, {CicdAccount})
  IN [k \in DOMAIN accounts |->
        StackOf("account", getAccountStackName, accounts[k], cicdRegion)]

\* plan.orgStack, plan.pipelineStacks, plan.stageStacks, plan.importStacks in
\* the order executeDeployment registers and spawns them
MainStacksOf(pipelines) ==
  <<StackOf("org", getOrgStackName(OrgSlug), CicdAccount, cicdRegion)>>
    \o [p \in DOMAIN pipelines |->
          StackOf("pipeline", getPipelineStackName(pipelines[p].slug), CicdAccount, cicdRegion)]
    \o Concat([p \in DOMAIN pipelines |->
                 [k \in DOMAIN pipelines[p].stages |->
                    LET stage == pipelines[p].stages[k]
                    IN StackOf("stage", getStageStackName(pipelines[p].slug, stage.name),
                               stage.account_id, stage.region)]])
    \o Concat([p \in DOMAIN pipelines |->
                 [k \in DOMAIN pipelines[p].imports |->
                    StackOf("import", getImportStackName(pipelines[p].slug),
                            pipelines[p].imports[k], cicdRegion)]])

VARIABLES
  regStacks,    \* the stacks of the phase, in plan order; task i deploys stack i
  regCurrent,   \* currentAccountId
  gpc,          \* position of executeDeployment in the phase
  registry,     \* MultiStackProgress.stacks: key -> entry
  rpc,          \* per task: the call it is awaiting, "resolved" at its end
  rres          \* per task: the outcome Promise.all collects

regVars == <<regStacks, regCurrent, gpc, registry, rpc, rres>>

RegTasks == DOMAIN regStacks

\* the key addStack registers the stack with
RegisteredKey(stack) == getStackKey(stack.stackName, stack.accountId, stack.region)

\* deployOptions of the deploy*Stack functions: the Org and Pipeline tasks take
\* the account and the region from authData, the others from their descriptor
DeployOptions(stack) ==
  IF stack.stackType \in {"org", "pipeline"}
  THEN [stackName |-> stack.stackName, accountId |-> CicdAccount, region |-> cicdRegion]
  ELSE [stackName |-> stack.stackName, accountId |-> stack.accountId, region |-> stack.region]

\* the key deployStack reads and writes the registry with
TaskKey(t) ==
  LET o == DeployOptions(regStacks[t]) IN getStackKey(o.stackName, o.accountId, o.region)

\* the account whose credentials the task gets
CredentialsAccount(stack) ==
  IF stack.stackType \in {"org", "pipeline"} THEN CicdAccount ELSE stack.accountId

\* addStack over the stacks in order: a key already there is not added again
addStacks(stacks) ==
  [key \in {RegisteredKey(stacks[i]) : i \in DOMAIN stacks} |->
     [status |-> "pending", writers |-> {}]]

\* startStack / completeStack of task t: the entry of the key, if there is one
WriteEntry(reg, t, status) ==
  IF TaskKey(t) \in DOMAIN reg
  THEN [reg EXCEPT ![TaskKey(t)] = [status |-> status, writers |-> @.writers \cup {t}]]
  ELSE reg

RegInit ==
  /\ \E pipelines \in RunPipelines :
       regStacks \in {AccountStacksOf(pipelines), MainStacksOf(pipelines)}
  /\ regCurrent \in {CicdAccount, ValidId2}
  /\ gpc = "start"
  /\ registry = <<>>
  /\ rpc = <<>>
  /\ rres = <<>>

RegIdle ==
  /\ regStacks = <<>>
  /\ regCurrent = CicdAccount
  /\ gpc = "idle"
  /\ registry = <<>>
  /\ rpc = <<>>
  /\ rres = <<>>

\* executeDeployment from the registration of the phase's stacks to
\* `await Promise.all(...)`: each task has run to its first await
RegisterAndSpawn ==
  /\ gpc = "start"
  /\ registry' = addStacks(regStacks)
  /\ rpc' = [t \in RegTasks |->
               IF CredentialsAccount(regStacks[t]) # regCurrent
               THEN "assumeRoleForAccount" ELSE "previewStackChanges"]
  /\ rres' = [t \in RegTasks |-> "none"]
  /\ gpc' = "awaiting"
  /\ UNCHANGED <<regStacks, regCurrent>>

\* the task's error is caught by the phase: { success: false, error }
TaskFails(t) ==
  /\ rpc' = [rpc EXCEPT ![t] = "resolved"]
  /\ rres' = [rres EXCEPT ![t] = "failed"]

\* assumeRoleForAccount returned (the task calls previewStackChanges) or threw
TaskAssumeRoleReturns(t) ==
  /\ gpc = "awaiting" /\ rpc[t] = "assumeRoleForAccount"
  /\ \/ /\ rpc' = [rpc EXCEPT ![t] = "previewStackChanges"]
        /\ UNCHANGED rres
     \/ TaskFails(t)
  /\ UNCHANGED <<regStacks, regCurrent, gpc, registry>>

\* previewStackChanges returned (the task calls deployStack, which marks the
\* stack as started and awaits its probe) or threw
TaskPreviewReturns(t) ==
  /\ gpc = "awaiting" /\ rpc[t] = "previewStackChanges"
  /\ \/ /\ rpc' = [rpc EXCEPT ![t] = "deployStack"]
        /\ registry' = WriteEntry(registry, t, "in_progress")
        /\ UNCHANGED rres
     \/ /\ TaskFails(t)
        /\ UNCHANGED registry
  /\ UNCHANGED <<regStacks, regCurrent, gpc>>

\* deployStack returned or threw: it has completed the stack in the registry
TaskDeployStackReturns(t) ==
  /\ gpc = "awaiting" /\ rpc[t] = "deployStack"
  /\ \/ /\ registry' = WriteEntry(registry, t, "complete")
        /\ rpc' = [rpc EXCEPT ![t] = "resolved"]
        /\ rres' = [rres EXCEPT ![t] = "ok"]
     \/ /\ registry' = WriteEntry(registry, t, "failed")
        /\ TaskFails(t)
  /\ UNCHANGED <<regStacks, regCurrent, gpc>>

\* the phase is settled: every task has resolved and Promise.all's
\* continuation has not run yet
PhaseSettled == gpc = "awaiting" /\ \A t \in RegTasks : rpc[t] = "resolved"

\* the continuation of `await Promise.all(...)`: clearMultiStackProgress()
PhaseJoined ==
  /\ PhaseSettled
  /\ registry' = <<>>
  /\ gpc' = "joined"
  /\ UNCHANGED <<regStacks, regCurrent, rpc, rres>>

\* =========================================================================
\* bootstrapCommand: dry run, confirmation, deployment
\* (src/src/commands/bootstrap.ts)
\* =========================================================================

VARIABLES
  cmdDryRun,     \* options.dryRun
  cmdStacks,     \* the number of stacks of the plan
  cmdpc,         \* position of bootstrapCommand
  cmdConfirmed,  \* what confirmDeploymentPlan returned, "none" before
  cmdLeft,       \* the stacks still to plan, or still to deploy
  cmdCalls,      \* the calls made to the provider so far, by kind
  cmdExit        \* process.exit status, -1 while running

cmdVars == <<cmdDryRun, cmdStacks, cmdpc, cmdConfirmed, cmdLeft, cmdCalls, cmdExit>>

NoCalls == [assumeRole |-> 0, describeStacks |-> 0, changeSets |-> 0, submits |-> 0]

\* one more call of a kind
Called(calls, kind, n) == [calls EXCEPT ![kind] = @ + n]

AfterPlanAlwaysConfirm(dryRun) == "confirmDeploymentPlan"

\* `if (options.dryRun) { await showDryRunPlan(plan); process.exit(0); }`
AfterPlan(dryRun) == IF dryRun THEN "showDryRunPlan" ELSE "confirmDeploymentPlan"

CmdInit ==
  /\ cmdDryRun \in BOOLEAN
  /\ cmdStacks \in 3..(2 + MaxPhase2Stacks)
  /\ cmdpc = "start"
  /\ cmdConfirmed = "none"
  /\ cmdLeft = 0
  /\ cmdCalls = NoCalls
  /\ cmdExit = -1

CmdIdle ==
  /\ cmdDryRun = FALSE
  /\ cmdStacks = 3
  /\ cmdpc = "idle"
  /\ cmdConfirmed = "none"
  /\ cmdLeft = 0
  /\ cmdCalls = NoCalls
  /\ cmdExit = -1

\* steps 1 to 3: identity, authentication, the pipelines found and parsed; an
\* error ends the command in its catch block
BootstrapCommandCalled ==
  /\ cmdpc = "start"
  /\ \/ /\ cmdpc' = "buildDeploymentPlan"
        /\ cmdLeft' = cmdStacks
        /\ UNCHANGED cmdExit
     \/ /\ cmdpc' = "exited"
        /\ cmdExit' = 1
        /\ UNCHANGED cmdLeft
  /\ UNCHANGED <<cmdDryRun, cmdStacks, cmdConfirmed, cmdCalls>>

\* buildDeploymentPlan has built one more descriptor: a role assumption for a
\* descriptor of another account, and the status probe of determineStackAction
PlanDescriptorBuilt ==
  /\ cmdpc = "buildDeploymentPlan"
  /\ \E assumed \in 0..1 :
       cmdCalls' = Called(Called(cmdCalls, "assumeRole", assumed), "describeStacks", 1)
  /\ cmdLeft' = cmdLeft - 1
  /\ cmdpc' = IF cmdLeft = 1 THEN AfterPlan(cmdDryRun) ELSE cmdpc
  /\ UNCHANGED <<cmdDryRun, cmdStacks, cmdConfirmed, cmdExit>>

\* showDryRunPlan has logged the plan
ShowDryRunPlanReturns ==
  /\ cmdpc = "showDryRunPlan"
  /\ cmdpc' = "exited"
  /\ cmdExit' = 0
  /\ UNCHANGED <<cmdDryRun, cmdStacks, cmdConfirmed, cmdLeft, cmdCalls>>

\* the user has answered the prompt
ConfirmDeploymentPlanReturns ==
  /\ cmdpc = "confirmDeploymentPlan"
  /\ \/ /\ cmdConfirmed' = "declined"
        /\ cmdpc' = "exited"
        /\ cmdExit' = 0
        /\ UNCHANGED cmdLeft
     \/ /\ cmdConfirmed' = "confirmed"
        /\ cmdpc' = "executeDeployment"
        /\ cmdLeft' = cmdStacks
        /\ UNCHANGED cmdExit
  /\ UNCHANGED <<cmdDryRun, cmdStacks, cmdCalls>>

\* executeDeployment, as far as the calls go: one stack's task has ended. It
\* has assumed a role or not, and has got as far as its preview (a probe, a
\* change set for a stack that exists) or its deployment (a probe, an
\* operation submitted unless the probe failed).
StackTaskEnds ==
  /\ cmdpc = "executeDeployment"
  /\ \E assumed \in 0..1, previewed \in 0..1, previewedChanges \in 0..1, deployed \in 0..1,
        sent \in 0..1 :
       /\ previewedChanges <= previewed /\ deployed <= previewed /\ sent <= deployed
       /\ cmdCalls' =
            Called(Called(Called(Called(cmdCalls, "assumeRole", assumed),
                                 "describeStacks", previewed + deployed),
                          "changeSets", previewedChanges),
                   "submits", sent)
  /\ cmdLeft' = cmdLeft - 1
  /\ IF cmdLeft = 1
     THEN /\ cmdpc' = "exited"
          /\ \E status \in 0..1 : cmdExit' = status
     ELSE UNCHANGED <<cmdpc, cmdExit>>
  /\ UNCHANGED <<cmdDryRun, cmdStacks, cmdConfirmed>>

vars ==
  <<execVars, stackVars, orgVars, previewVars, assumeVars, planVars, mergeVars, regVars,
    cmdVars>>

\* executeDeployment over a plan
Next ==
  \/ StartPhase1 /\ UNCHANGED <<stackVars, orgVars, previewVars, assumeVars, planVars, mergeVars, regVars, cmdVars>>
  \/ JoinPhase1 /\ UNCHANGED <<stackVars, orgVars, previewVars, assumeVars, planVars, mergeVars, regVars, cmdVars>>
  \/ JoinPhase2 /\ UNCHANGED <<stackVars, orgVars, previewVars, assumeVars, planVars, mergeVars, regVars, cmdVars>>
  \/ \E t \in TaskIds : AssumeRoleReturns(t) /\ UNCHANGED <<stackVars, orgVars, previewVars, assumeVars, planVars, mergeVars, regVars, cmdVars>>
  \/ \E t \in TaskIds : PreviewReturns(t) /\ UNCHANGED <<stackVars, orgVars, previewVars, assumeVars, planVars, mergeVars, regVars, cmdVars>>
  \/ \E t \in TaskIds : DeployStackReturns(t) /\ UNCHANGED <<stackVars, orgVars, previewVars, assumeVars, planVars, mergeVars, regVars, cmdVars>>

Init == ExecInit /\ StackIdle /\ OrgIdle /\ PreviewIdle /\ AssumeIdle /\ PlanIdle /\ MergeIdle /\ RegIdle /\ CmdIdle

Spec == Init /\ [][Next]_vars

\* deployStack on one stack
NextStack ==
  \/ ProviderAdvance /\ UNCHANGED <<planAction, execVars, orgVars, previewVars, assumeVars, planVars, mergeVars, regVars, cmdVars>>
  \/ ProviderEvent /\ UNCHANGED <<planAction, execVars, orgVars, previewVars, assumeVars, planVars, mergeVars, regVars, cmdVars>>
  \/ DeployStackCalled /\ UNCHANGED <<planAction, execVars, orgVars, previewVars, assumeVars, planVars, mergeVars, regVars, cmdVars>>
  \/ ProbeReturns /\ UNCHANGED <<planAction, execVars, orgVars, previewVars, assumeVars, planVars, mergeVars, regVars, cmdVars>>
  \/ DeleteSubmitReturns /\ UNCHANGED <<planAction, execVars, orgVars, previewVars, assumeVars, planVars, mergeVars, regVars, cmdVars>>
  \/ DeleteWaitReturns /\ UNCHANGED <<planAction, execVars, orgVars, previewVars, assumeVars, planVars, mergeVars, regVars, cmdVars>>
  \/ CreateSubmitReturns /\ UNCHANGED <<planAction, execVars, orgVars, previewVars, assumeVars, planVars, mergeVars, regVars, cmdVars>>
  \/ UpdateSubmitReturns /\ UNCHANGED <<planAction, execVars, orgVars, previewVars, assumeVars, planVars, mergeVars, regVars, cmdVars>>
  \/ DescribeStacksReturns /\ UNCHANGED <<planAction, execVars, orgVars, previewVars, assumeVars, planVars, mergeVars, regVars, cmdVars>>
  \/ DescribeStackEventsReturns /\ UNCHANGED <<planAction, execVars, orgVars, previewVars, assumeVars, planVars, mergeVars, regVars, cmdVars>>
  \/ SleepReturns /\ UNCHANGED <<planAction, execVars, orgVars, previewVars, assumeVars, planVars, mergeVars, regVars, cmdVars>>

InitStack == StackInit /\ ExecIdle /\ OrgIdle /\ PreviewIdle /\ AssumeIdle /\ PlanIdle /\ MergeIdle /\ RegIdle /\ CmdIdle

SpecStack == InitStack /\ [][NextStack]_vars

\* a run to its end: executeDeployment with its tasks, and the deployStack
\* of one of them with the provider calls it waits for. Every call the
\* program awaits returns or fails, and time advances; the provider is free
\* to leave a stack in progress for ever.
StackProgramStep ==
  /\ \/ DeployStackCalled
     \/ ProbeReturns
     \/ DeleteSubmitReturns
     \/ DeleteWaitReturns
     \/ CreateSubmitReturns
     \/ UpdateSubmitReturns
     \/ DescribeStacksReturns
     \/ DescribeStackEventsReturns
     \/ SleepReturns
  /\ UNCHANGED <<planAction, execVars, orgVars, previewVars, assumeVars, planVars, mergeVars, regVars, cmdVars>>

NextLive ==
  \/ NextStack
  \/ Next

InitLive == Init \/ InitStack

SpecLive == InitLive /\ [][NextLive]_vars /\ WF_vars(StackProgramStep) /\ WF_vars(Next)

\* bootstrap runs in a row, as far as the Org stack goes
NextOrg ==
  \/ BootstrapCalled /\ UNCHANGED <<execVars, stackVars, previewVars, assumeVars, planVars, mergeVars, regVars, cmdVars>>
  \/ DetermineStackActionReturns /\ UNCHANGED <<execVars, stackVars, previewVars, assumeVars, planVars, mergeVars, regVars, cmdVars>>
  \/ DeployOrgStackCalled /\ UNCHANGED <<execVars, stackVars, previewVars, assumeVars, planVars, mergeVars, regVars, cmdVars>>
  \/ ReadExistingStackReturns /\ UNCHANGED <<execVars, stackVars, previewVars, assumeVars, planVars, mergeVars, regVars, cmdVars>>
  \/ ExtractExistingReturns /\ UNCHANGED <<execVars, stackVars, previewVars, assumeVars, planVars, mergeVars, regVars, cmdVars>>
  \/ OrgPreviewReturns /\ UNCHANGED <<execVars, stackVars, previewVars, assumeVars, planVars, mergeVars, regVars, cmdVars>>
  \/ OrgDeployStackReturns /\ UNCHANGED <<execVars, stackVars, previewVars, assumeVars, planVars, mergeVars, regVars, cmdVars>>
  \/ BootstrapReturns /\ UNCHANGED <<execVars, stackVars, previewVars, assumeVars, planVars, mergeVars, regVars, cmdVars>>

InitOrg == OrgInit /\ ExecIdle /\ StackIdle /\ PreviewIdle /\ AssumeIdle /\ PlanIdle /\ MergeIdle /\ RegIdle /\ CmdIdle

SpecOrg == InitOrg /\ [][NextOrg]_vars

\* previewStackChanges on one stack
NextPreview ==
  \/ PreviewCalled /\ UNCHANGED <<execVars, stackVars, orgVars, assumeVars, planVars, mergeVars, regVars, cmdVars>>
  \/ PreviewProbeReturns /\ UNCHANGED <<execVars, stackVars, orgVars, assumeVars, planVars, mergeVars, regVars, cmdVars>>
  \/ CreateChangeSetReturns /\ UNCHANGED <<execVars, stackVars, orgVars, assumeVars, planVars, mergeVars, regVars, cmdVars>>
  \/ WaitChangeSetReturns /\ UNCHANGED <<execVars, stackVars, orgVars, assumeVars, planVars, mergeVars, regVars, cmdVars>>
  \/ DescribeChangeSetReturns /\ UNCHANGED <<execVars, stackVars, orgVars, assumeVars, planVars, mergeVars, regVars, cmdVars>>
  \/ DeleteChangeSetReturns /\ UNCHANGED <<execVars, stackVars, orgVars, assumeVars, planVars, mergeVars, regVars, cmdVars>>
  \/ CleanupDeleteReturns /\ UNCHANGED <<execVars, stackVars, orgVars, assumeVars, planVars, mergeVars, regVars, cmdVars>>
  \/ PreviewAgain /\ UNCHANGED <<execVars, stackVars, orgVars, assumeVars, planVars, mergeVars, regVars, cmdVars>>

InitPreview == PreviewInit /\ ExecIdle /\ StackIdle /\ OrgIdle /\ AssumeIdle /\ PlanIdle /\ MergeIdle /\ RegIdle /\ CmdIdle

SpecPreview == InitPreview /\ [][NextPreview]_vars

\* one call of assumeRoleForAccount
NextAssume ==
  \/ AssumeRoleForAccountCalled /\ UNCHANGED <<execVars, stackVars, orgVars, previewVars, planVars, mergeVars, regVars, cmdVars>>
  \/ AssumeRoleAttemptReturns /\ UNCHANGED <<execVars, stackVars, orgVars, previewVars, planVars, mergeVars, regVars, cmdVars>>

InitAssume == AssumeInit /\ ExecIdle /\ StackIdle /\ OrgIdle /\ PreviewIdle /\ PlanIdle /\ MergeIdle /\ RegIdle /\ CmdIdle

SpecAssume == InitAssume /\ [][NextAssume]_vars

\* one call of buildDeploymentPlan
NextPlan ==
  \/ BuildDeploymentPlanCalled
       /\ UNCHANGED <<execVars, stackVars, orgVars, previewVars, assumeVars, mergeVars, regVars, cmdVars>>
  \/ PlanAssumeRoleReturns
       /\ UNCHANGED <<execVars, stackVars, orgVars, previewVars, assumeVars, mergeVars, regVars, cmdVars>>
  \/ PlanProbeReturns
       /\ UNCHANGED <<execVars, stackVars, orgVars, previewVars, assumeVars, mergeVars, regVars, cmdVars>>

InitPlan == PlanInit /\ ExecIdle /\ StackIdle /\ OrgIdle /\ PreviewIdle /\ AssumeIdle /\ MergeIdle /\ RegIdle /\ CmdIdle

SpecPlan == InitPlan /\ [][NextPlan]_vars

\* the strategy's methods, executeMerge and deployOrgStack, called one after
\* the other on the one strategy instance
NextMerge ==
  \/ ValidateAwsAccountIdCalled
       /\ UNCHANGED <<execVars, stackVars, orgVars, previewVars, assumeVars, planVars, regVars, cmdVars>>
  \/ CollectNewCalled
       /\ UNCHANGED <<execVars, stackVars, orgVars, previewVars, assumeVars, planVars, regVars, cmdVars>>
  \/ MergeCalled
       /\ UNCHANGED <<execVars, stackVars, orgVars, previewVars, assumeVars, planVars, regVars, cmdVars>>
  \/ ValidateCalled
       /\ UNCHANGED <<execVars, stackVars, orgVars, previewVars, assumeVars, planVars, regVars, cmdVars>>
  \/ ExtractExistingCalled
       /\ UNCHANGED <<execVars, stackVars, orgVars, previewVars, assumeVars, planVars, regVars, cmdVars>>
  \/ ExecuteMergeCalled
       /\ UNCHANGED <<execVars, stackVars, orgVars, previewVars, assumeVars, planVars, regVars, cmdVars>>
  \/ DeployOrgStackBegins
       /\ UNCHANGED <<execVars, stackVars, orgVars, previewVars, assumeVars, planVars, regVars, cmdVars>>
  \/ OrgAssumeRoleReturns
       /\ UNCHANGED <<execVars, stackVars, orgVars, previewVars, assumeVars, planVars, regVars, cmdVars>>
  \/ OrgReadExistingStackReturns
       /\ UNCHANGED <<execVars, stackVars, orgVars, previewVars, assumeVars, planVars, regVars, cmdVars>>
  \/ OrgExtractExistingReturns
       /\ UNCHANGED <<execVars, stackVars, orgVars, previewVars, assumeVars, planVars, regVars, cmdVars>>
  \/ OrgMergePreviewReturns
       /\ UNCHANGED <<execVars, stackVars, orgVars, previewVars, assumeVars, planVars, regVars, cmdVars>>
  \/ OrgMergeDeployStackReturns
       /\ UNCHANGED <<execVars, stackVars, orgVars, previewVars, assumeVars, planVars, regVars, cmdVars>>
  \/ MergeCallEnds
       /\ UNCHANGED <<execVars, stackVars, orgVars, previewVars, assumeVars, planVars, regVars, cmdVars>>

InitMerge == MergeInit /\ ExecIdle /\ StackIdle /\ OrgIdle /\ PreviewIdle /\ AssumeIdle /\ PlanIdle /\ RegIdle /\ CmdIdle

SpecMerge == InitMerge /\ [][NextMerge]_vars

\* one phase of executeDeployment with the progress registry
NextRegistry ==
  \/ RegisterAndSpawn
       /\ UNCHANGED <<execVars, stackVars, orgVars, previewVars, assumeVars, planVars, mergeVars, cmdVars>>
  \/ \E t \in RegTasks : TaskAssumeRoleReturns(t)
       /\ UNCHANGED <<execVars, stackVars, orgVars, previewVars, assumeVars, planVars, mergeVars, cmdVars>>
  \/ \E t \in RegTasks : TaskPreviewReturns(t)
       /\ UNCHANGED <<execVars, stackVars, orgVars, previewVars, assumeVars, planVars, mergeVars, cmdVars>>
  \/ \E t \in RegTasks : TaskDeployStackReturns(t)
       /\ UNCHANGED <<execVars, stackVars, orgVars, previewVars, assumeVars, planVars, mergeVars, cmdVars>>
  \/ PhaseJoined
       /\ UNCHANGED <<execVars, stackVars, orgVars, previewVars, assumeVars, planVars, mergeVars, cmdVars>>

InitRegistry ==
  RegInit /\ ExecIdle /\ StackIdle /\ OrgIdle /\ PreviewIdle /\ AssumeIdle /\ PlanIdle /\ MergeIdle
    /\ CmdIdle

SpecRegistry == InitRegistry /\ [][NextRegistry]_vars

\* one run of the bootstrap command
NextCommand ==
  \/ BootstrapCommandCalled
       /\ UNCHANGED <<execVars, stackVars, orgVars, previewVars, assumeVars, planVars, mergeVars, regVars>>
  \/ PlanDescriptorBuilt
       /\ UNCHANGED <<execVars, stackVars, orgVars, previewVars, assumeVars, planVars, mergeVars, regVars>>
  \/ ShowDryRunPlanReturns
       /\ UNCHANGED <<execVars, stackVars, orgVars, previewVars, assumeVars, planVars, mergeVars, regVars>>
  \/ ConfirmDeploymentPlanReturns
       /\ UNCHANGED <<execVars, stackVars, orgVars, previewVars, assumeVars, planVars, mergeVars, regVars>>
  \/ StackTaskEnds
       /\ UNCHANGED <<execVars, stackVars, orgVars, previewVars, assumeVars, planVars, mergeVars, regVars>>

InitCommand ==
  CmdInit /\ ExecIdle /\ StackIdle /\ OrgIdle /\ PreviewIdle /\ AssumeIdle /\ PlanIdle /\ MergeIdle
    /\ RegIdle

SpecCommand == InitCommand /\ [][NextCommand]_vars

\* ------------------------------------------------------------------ claims

InFlight(t) == tpc[t] \notin {"unspawned", "resolved"}
\* the task has started: it has issued its first call
HasActed(t) == tpc[t] # "unspawned"

\* C1: phase barrier. No Phase-2 task (Org, Pipeline, Stage, Import) has been
\* spawned or has issued any call (role assumption, preview, deploy) unless
\* every Phase-1 Account-stack task has resolved.
C1_PhaseBarrier ==
  \A t \in Phase2Tasks :
    HasActed(t) => \A a \in Phase1Tasks : tpc[a] = "resolved" /\ tres[a] # "none"

\* a Phase-2 task is deploying after a Phase 1 of at least two Account stacks
C1_Witness ==
  /\ Cardinality(Phase1Tasks) >= 2
  /\ \E t \in Phase2Tasks : tpc[t] = "deployStack"

\* C2: a Phase-1 failure aborts the run. Once an Account-stack task has failed,
\* no Phase-2 task is ever spawned and none issues a call, the executor never
\* enters Phase 2, and when the run has ended its exit status is 1 and the
\* failed counter equals the number of failed Account stacks.
C2_Phase1FailureAborts ==
  (\E a \in Phase1Tasks : tres[a] = "failed") =>
    /\ \A t \in Phase2Tasks : ~HasActed(t)
    /\ epc \in {"phase1", "exited"}
    /\ epc = "exited" =>
         /\ exitCode = 1
         /\ results.failed = Cardinality({a \in Phase1Tasks : tres[a] = "failed"})

\* the run ended after one Account stack failed and another succeeded
C2_Witness ==
  /\ epc = "exited"
  /\ \E a, b \in Phase1Tasks : tres[a] = "ok" /\ tres[b] = "failed"

\* C3: fail isolation inside a phase. A step in which a task resolves with a
\* failure leaves every other task's position and outcome unchanged; an
\* outcome, once collected, never changes; and the executor leaves a phase
\* only when every task of that phase has resolved with an outcome.
C3_Step ==
  /\ \A t \in PlanTasks :
       (tpc[t] # "resolved" /\ tpc'[t] = "resolved" /\ tres'[t] # "ok") =>
         \A u \in PlanTasks \ {t} : tpc'[u] = tpc[u] /\ tres'[u] = tres[u]
  /\ \A t \in PlanTasks :
       tpc[t] = "resolved" => tpc'[t] = "resolved" /\ tres'[t] = tres[t]
  /\ (epc = "phase1" /\ epc' # "phase1") =>
       \A t \in Phase1Tasks : tpc[t] = "resolved" /\ tres[t] # "none"
  /\ (epc = "phase2" /\ epc' # "phase2") =>
       \A t \in Phase2Tasks : tpc[t] = "resolved" /\ tres[t] # "none"

C3_FailIsolation == [][C3_Step]_execVars

\* a Phase-2 task has failed while a sibling is still in flight
C3_Witness ==
  \E t, u \in Phase2Tasks : t # u /\ tres[t] = "failed" /\ InFlight(u)

\* C4: overall success flag. When the run has ended, the exit status is 0 if
\* and only if every collected outcome is a success, and the success and
\* failed counters equal the numbers of successful and failed outcomes.
C4_OverallSuccess ==
  epc = "exited" =>
    /\ exitCode \in {0, 1}
    /\ exitCode = 0 <=> \A t \in PlanTasks : tres[t] \in {"none", "ok"}
    /\ exitCode = 0 => \A t \in PlanTasks : tres[t] = "ok"
    /\ results.success = Cardinality({t \in PlanTasks : tres[t] = "ok"})
    /\ results.failed = Cardinality({t \in PlanTasks : tres[t] = "failed"})

\* the run ended with failure although Phase-2 stacks succeeded
C4_Witness ==
  /\ epc = "exited"
  /\ exitCode = 1
  /\ \E t, u \in Phase2Tasks : tres[t] = "ok" /\ tres[u] = "failed"

\* C5: outcome completeness. When the run reaches the final summary (every
\* Account stack succeeded), every stack of the plan has exactly one outcome
\* and successCount + failedCount = 1 + |pipelineStacks| + |accountStacks|
\* + |stageStacks| + |importStacks|.
C5_OutcomeCompleteness ==
  (epc = "exited" /\ \A a \in Phase1Tasks : tres[a] = "ok") =>
    /\ \A t \in PlanTasks : tres[t] # "none"
    /\ results.success + results.failed =
         1 + Len(plan.pipelineStacks) + Len(plan.accountStacks)
           + Len(plan.stageStacks) + Len(plan.importStacks)

\* the final summary of a plan with all five stack kinds
C5_Witness ==
  /\ epc = "exited"
  /\ \A a \in Phase1Tasks : tres[a] = "ok"
  /\ Len(plan.accountStacks) >= 2
  /\ Len(plan.stageStacks) >= 1
  /\ Len(plan.importStacks) >= 1
  /\ \E t \in Phase2Tasks : tres[t] = "failed"


\* C8: rollback recovery ordering. For a stack that the probe found in
\* ROLLBACK_COMPLETE, deployStack submits a delete first, then a create and
\* nothing else; the create is submitted from the deletion wait and only when
\* the stack is gone at the provider; an update is never submitted.
C8_Step ==
  (stackStatus'.status = "ROLLBACK_COMPLETE" /\ submitted' # submitted) =>
    \/ submitted = <<>> /\ submitted' = <<"delete">>
    \/ /\ submitted = <<"delete">>
       /\ submitted' = <<"delete", "create">>
       /\ dpc = "waitUntilStackDeleteComplete"
       /\ providerStatus = "NONE"

C8_RollbackRecovery == [][C8_Step]_stackVars

\* a rolled-back stack was deleted and created again, and the create succeeded
C8_Witness ==
  /\ stackStatus.status = "ROLLBACK_COMPLETE"
  /\ submitted = <<"delete", "create">>
  /\ dpc = "returned"
  /\ providerStatus = "CREATE_COMPLETE"

\* C9: terminal classification. When the poll loop has read a status and the
\* events, it goes on polling exactly if the status is outside the terminal
\* set, returns (success) exactly if the status is CREATE_COMPLETE or
\* UPDATE_COMPLETE, and throws the status failure exactly if the status is any
\* other terminal status; an operation that was waited for never returns
\* while the last status read is non-terminal.
C9_Terminal ==
  {"CREATE_COMPLETE", "CREATE_FAILED", "DELETE_COMPLETE", "DELETE_FAILED",
   "ROLLBACK_COMPLETE", "ROLLBACK_FAILED", "UPDATE_COMPLETE", "UPDATE_FAILED",
   "UPDATE_ROLLBACK_COMPLETE", "UPDATE_ROLLBACK_FAILED"}

C9_Success == {"CREATE_COMPLETE", "UPDATE_COMPLETE"}

C9_Step ==
  (dpc = "describeStackEvents" /\ dpc' # dpc /\ thrown'.cause \notin ProviderErrors) =>
    /\ dpc' = "sleep" <=> currentStatus \notin C9_Terminal
    /\ dpc' = "returned" <=> currentStatus \in C9_Success
    /\ dpc' = "thrown" <=> currentStatus \in C9_Terminal \ C9_Success
    /\ dpc' = "thrown" => thrown'.cause = StatusMessage(currentStatus)
    /\ progressEntry'.status = "complete" <=> currentStatus \in C9_Success

C9_Waited == Len(submitted) > 0 /\ currentStatus # ""

C10_EndedInFailureStatus ==
  /\ dpc = "thrown"
  /\ currentStatus \in TERMINAL_STATES \ SUCCESS_STATES
  /\ thrown.cause \notin ProviderErrors

\* the message is the reason, alone or after the loop's fixed prefix
C10_Carries(message, reason) ==
  \E prefix \in {"", "Stack operation failed with status: "} : message = prefix \o reason

C10_FailureReasonPreference ==
  C10_EndedInFailureStatus =>
    C10_Carries(thrown.cause,
                IF latestFailureReason # "" THEN latestFailureReason ELSE currentStatus)


\* the ids the policy held when the run began, as extractExisting reads them
\* when the policy is readable
C6_Existing == extractExisting(policyReadable, policyBefore)

\* C6: Org-stack reconciliation. Whenever the Org stack is deployed over an
\* Org stack that already exists, the list given to template generation is
\* the merge (sorted union) of the ids extracted from the existing state and
\* the newly computed target ids.
C6_OrgReconciliation ==
  (opc \in {"previewStackChanges", "deployStack", "succeeded"} /\ existedBefore) =>
    targetAccountIds = Sorted(Range(C6_Existing.allowedAccountIds)
                                \cup Range(allTargetAccountIds))

\* C7: the allow-list is monotone across runs. If the Org stack exists and
\* its bucket policy is readable before a run, the allow-list the run deploys
\* contains every account id the policy held before the run.
C7_AllowListMonotone ==
  (opc = "succeeded" /\ existedBefore /\ policyReadable) =>
    Range(extractAccountIdsFromPolicy(policyBefore))
      \subseteq Range(extractAccountIdsFromPolicy(bucketPolicy))


\* the kind of the error deployStack throws for a terminal failure status
C11_StatusFailureKind == "CloudFormationError"

\* C11: timeout is a distinct failure kind. The error deployStack throws when
\* the polling exceeds the ceiling is of another kind than the error it throws
\* for a provider-reported terminal failure.
C11_TimeoutDistinctKind ==
  (dpc = "thrown" /\ thrown.cause = TimeoutMessage) => thrown.name # C11_StatusFailureKind

\* C12: timeout only without a terminal state. The operation is reported as
\* timed out only if the stack's status at the provider is not terminal.
C12_TimeoutOnlyNonTerminal ==
  (dpc = "thrown" /\ thrown.cause = TimeoutMessage) =>
    providerStatus \notin TERMINAL_STATES

\* C13: a no-change update is a success without polling. deployStack never
\* throws for the answer "No updates are to be performed"; when it returns
\* straight from the update submission, the registry entry is complete with
\* all resources counted, no error is recorded, the provider's stack is
\* untouched and no status or event poll was made.
C13_Step ==
  (dpc = "update" /\ dpc' = "returned") =>
    /\ progressEntry'.status = "complete"
    /\ progressEntry'.completed = progressEntry'.total
    /\ thrown' = NoError
    /\ providerStatus' = providerStatus
    /\ currentStatus' = "" /\ seenEventIds' = {} /\ elapsed' = 0

C13_NoChangeUpdate ==
  /\ [][C13_Step]_stackVars
  /\ [](thrown.cause # NoUpdatesMessage)
  /\ [](dpc = "returned" /\ currentStatus = "" =>
          submitted = <<"update">> /\ progressEntry.status = "complete")

C13_Witness ==
  /\ dpc = "returned"
  /\ submitted = <<"update">>
  /\ currentStatus = ""
  /\ providerStatus = "UPDATE_ROLLBACK_COMPLETE"
  /\ progressEntry.status = "complete"

\* C19: deployment never masks a probe failure. When the status probe of
\* deployStack throws, nothing is submitted for the stack and the stack's
\* outcome is failure; a create is submitted from the probe only when the
\* probe answered that there is no stack.
C19_Step ==
  /\ (dpc = "getStackStatus" /\ dpc' = "thrown") =>
       /\ submitted' = <<>>
       /\ progressEntry'.status = "failed"
       /\ thrown'.name = "CloudFormationError"
  /\ (dpc = "getStackStatus" /\ submitted' # submitted) =>
       /\ stackStatus'.exists = (providerStatus # "NONE")
       /\ (dpc' = "create" => ~stackStatus'.exists)
  /\ dpc = "thrown" => submitted' = submitted

C19_ProbeFailureNotMasked == [][C19_Step]_stackVars

\* the probe of an existing stack failed: nothing was submitted
C19_Witness ==
  /\ dpc = "thrown"
  /\ providerStatus = "CREATE_COMPLETE"
  /\ submitted = <<>>
  /\ thrown.cause \in ProviderErrors
  /\ progressEntry.status = "failed"


\* C14: preview never touches a stack that does not exist. For such a stack
\* previewStackChanges sends no CreateChangeSet, no change set comes to exist,
\* and when it returns it has only reported that the stack will be created.
C14_PreviewSkipsNewStack ==
  pvStatus = "NONE" =>
    /\ \A i \in DOMAIN previewCalls : previewCalls[i] = "DescribeStacks"
    /\ changeSet = "none" /\ leftChangeSets = 0
    /\ ppc = "returned" => report = "will be created"

C14_Witness ==
  /\ pvStatus = "NONE"
  /\ ppc = "returned"
  /\ probeResponse.error = NotFoundMessage
  /\ report = "will be created"

\* C15: the preview artifact is always discarded. When previewStackChanges
\* returns after it created a change set, it has sent a DeleteChangeSet for it.
C15_ArtifactDiscarded ==
  (ppc = "returned" /\ changeSet # "none") =>
    \E i \in DOMAIN previewCalls : previewCalls[i] = "DeleteChangeSet"

\* C18: status prober outcomes. getStackStatus answers {exists: false} for
\* the provider's not-found error (and for an empty list) and does not throw;
\* for a stack it answers exists with the stack's status and id; it throws
\* every other provider error unchanged and never answers for it.
C18_ProberOutcomes ==
  ppc \notin {"idle", "start", "getStackStatus"} =>
    /\ probeResponse.error = NotFoundMessage => ~probed.threw /\ ~probed.exists
    /\ probeResponse.stacks # <<>> =>
         /\ ~probed.threw /\ probed.exists
         /\ probed.status = pvStatus /\ probed.stackId = "arn:S"
    /\ probeResponse.error \notin {"", NotFoundMessage} =>
         /\ probed.threw /\ probed.error = probeResponse.error
         /\ ppc = "thrown" /\ pvThrown = probeResponse.error
    /\ probed.exists => pvStatus # "NONE"

\* another provider error was thrown on, as it came
C18_Witness ==
  /\ ppc = "thrown"
  /\ pvStatus = "CREATE_COMPLETE"
  /\ probeResponse.error \in ProviderErrors
  /\ pvThrown = probeResponse.error


\* the roles that apply to a call, as the protocol names them
C16_Applicable ==
  IF arRoleName # "" THEN <<arRoleName>>
  ELSE <<"OrganizationAccountAccessRole", "AWSControlTowerExecution">>

\* C16: credential resolver protocol. For a target account other than the
\* current one, the roles attempted are a prefix of the applicable roles (the
\* supplied role alone, else default then fallback), each once; only the last
\* attempt can have succeeded and its credentials are what is returned; the
\* call throws RoleAssumptionError exactly when every applicable role was
\* attempted and failed.
C16_ResolverProtocol ==
  arTarget # arCurrent =>
    /\ Len(attempts) <= Len(C16_Applicable)
    /\ \A i \in DOMAIN attempts :
         /\ attempts[i].role = C16_Applicable[i]
         /\ i < Len(attempts) => attempts[i].outcome = "failed"
    /\ apc = "returned" =>
         /\ attempts # <<>>
         /\ attempts[Len(attempts)].outcome = "ok"
         /\ arResult = [kind |-> "credentials", accountId |-> arTarget,
                        roleName |-> attempts[Len(attempts)].role]
    /\ apc = "thrown" <=>
         /\ Len(attempts) = Len(C16_Applicable)
         /\ \A i \in DOMAIN attempts : attempts[i].outcome = "failed"
    /\ apc = "thrown" => arResult.kind = "RoleAssumptionError"

\* the default role failed and the fallback role gave the credentials
C16_Witness ==
  /\ arTarget # arCurrent
  /\ apc = "returned"
  /\ Len(attempts) = 2
  /\ attempts[1].outcome = "failed"
  /\ arResult.roleName = FALLBACK_TARGET_ROLE

\* C17: same-account shortcut. When the target account is the current
\* account, assumeRoleForAccount makes no assumeRole call, never throws, and
\* what it returns is the null that stands for the current credentials.
C17_SameAccountShortcut ==
  arTarget = arCurrent =>
    /\ attempts = <<>>
    /\ apc \in {"idle", "start", "returned"}
    /\ apc = "returned" => arResult.kind = "null"

C17_Witness ==
  /\ apc = "returned"
  /\ arTarget = arCurrent
  /\ arRoleName = "DeployerRole"
  /\ arResult.kind = "null"


\* C20: planning never aborts on probe trouble. buildDeploymentPlan never
\* throws, whatever role assumption or status probe fails; every descriptor
\* it has built is tagged CREATE or UPDATE, and CREATE when its probe threw;
\* when it returns, the plan holds every descriptor of the input.
C20_PlanningNeverAborts ==
  /\ bpc # "thrown"
  /\ \A i \in DOMAIN planOut : planOut[i].action \in {"CREATE", "UPDATE"}
  /\ (planOut # <<>> /\ lastProbe.threw) => planOut[Len(planOut)].action = "CREATE"
  /\ bpc = "returned" =>
       LET ds == Descriptors(planInput)
       IN /\ Len(planOut) = Len(ds)
          /\ \A i \in DOMAIN planOut :
               /\ planOut[i].stackType = ds[i].stackType
               /\ planOut[i].accountId = ds[i].accountId

\* a plan was returned although the last descriptor's role assumption and
\* its probe both failed
C20_Witness ==
  /\ bpc = "returned"
  /\ lastProbe.assume = "RoleAssumptionError"
  /\ lastProbe.threw
  /\ planOut[Len(planOut)].action = "CREATE"


C21_OfType(type) == {i \in DOMAIN planOut : planOut[i].stackType = type}

\* C21: plan account coverage. In every plan buildDeploymentPlan returns,
\* every Stage-stack and every Pipeline-stack descriptor has an Account-stack
\* descriptor of the same accountId in the plan, and the first Account-stack
\* descriptor is the CI/CD account's.
C21_PlanAccountCoverage ==
  bpc = "returned" =>
    /\ \A i \in C21_OfType("stage") \cup C21_OfType("pipeline") :
         \E j \in C21_OfType("account") : planOut[j].accountId = planOut[i].accountId
    /\ C21_OfType("account") # {}
    /\ LET first == CHOOSE j \in C21_OfType("account") :
                      \A k \in C21_OfType("account") : j <= k
       IN planOut[first].accountId = cicdAccountId

\* a plan was returned that has a stage outside the CI/CD account
C21_Witness ==
  /\ bpc = "returned"
  /\ \E i \in C21_OfType("stage") : planOut[i].accountId # cicdAccountId

\* the accounts the input refers to: the CI/CD account, the account of every
\* stage, the source account of every import artifact
C22_ReferencedAccounts ==
  {cicdAccountId}
    \cup UNION {Range(planInput[pi].stages) : pi \in DOMAIN planInput}
    \cup (UNION {Range(planInput[pi].artifacts) : pi \in DOMAIN planInput} \ {0})

\* C22: one Account stack per distinct account. In every returned plan the
\* accountIds of the Account-stack descriptors are pairwise distinct and are
\* exactly the CI/CD account, the stage accounts and the import-source
\* accounts, also when the CI/CD account is itself a stage or import account.
C22_OneAccountStackPerAccount ==
  bpc = "returned" =>
    /\ \A i, j \in C21_OfType("account") :
         planOut[i].accountId = planOut[j].accountId => i = j
    /\ {planOut[i].accountId : i \in C21_OfType("account")} = C22_ReferencedAccounts

\* a plan was returned for an input where the CI/CD account is a stage or
\* import-source account and another account is referred to as well
C22_Witness ==
  /\ bpc = "returned"
  /\ \E pi \in DOMAIN planInput :
       cicdAccountId \in Range(planInput[pi].stages) \cup Range(planInput[pi].artifacts)
  /\ Cardinality(C22_ReferencedAccounts) >= 2

C23_Count(type, pi, name, account) ==
  Cardinality({i \in C21_OfType(type) :
                 /\ planOut[i].pipeline = pi
                 /\ planOut[i].name = name
                 /\ planOut[i].accountId = account})

\* C23: plan cardinalities. The returned plan holds exactly one Org descriptor
\* and one Pipeline descriptor per pipeline, all in the CI/CD account and
\* region; exactly one Stage descriptor per (pipeline, stage) pair, in the
\* stage's account and region; exactly one Import descriptor per (pipeline,
\* distinct import-source account) pair, and none for a pipeline without
\* import artifact.
C23_PlanCardinalities ==
  bpc = "returned" =>
    /\ Cardinality(C21_OfType("org")) = 1
    /\ Cardinality(C21_OfType("pipeline")) = Len(planInput)
    /\ \A pi \in DOMAIN planInput : C23_Count("pipeline", pi, 0, cicdAccountId) = 1
    /\ \A i \in C21_OfType("org") \cup C21_OfType("pipeline") :
         planOut[i].accountId = cicdAccountId /\ planOut[i].region = cicdRegion
    /\ \A pi \in DOMAIN planInput : \A k \in DOMAIN planInput[pi].stages :
         C23_Count("stage", pi, k, planInput[pi].stages[k]) = 1
    /\ \A i \in C21_OfType("stage") :
         /\ planOut[i].pipeline \in DOMAIN planInput
         /\ planOut[i].name \in DOMAIN planInput[planOut[i].pipeline].stages
         /\ planOut[i].accountId = planInput[planOut[i].pipeline].stages[planOut[i].name]
         /\ planOut[i].region = StageRegion(planOut[i].accountId)
    /\ \A pi \in DOMAIN planInput : \A a \in Range(planInput[pi].artifacts) \ {0} :
         C23_Count("import", pi, 0, a) = 1
    /\ \A i \in C21_OfType("import") :
         /\ planOut[i].pipeline \in DOMAIN planInput
         /\ planOut[i].accountId \in Range(planInput[planOut[i].pipeline].artifacts) \ {0}

\* a plan was returned for a pipeline with a stage outside the CI/CD region
\* or with two import artifacts of one source account
C23_Witness ==
  /\ bpc = "returned"
  /\ \E pi \in DOMAIN planInput :
       \/ \E k \in DOMAIN planInput[pi].stages :
            StageRegion(planInput[pi].stages[k]) # cicdRegion
       \/ \E k, l \in DOMAIN planInput[pi].artifacts :
            k # l /\ planInput[pi].artifacts[k] # 0
                  /\ planInput[pi].artifacts[k] = planInput[pi].artifacts[l]


C24_NoDuplicates(ids) == \A i, j \in DOMAIN ids : ids[i] = ids[j] => i = j

\* C24: merge algebra. merge(A, B), an absent A counting as the empty list,
\* is the union of A and B without duplicates in ascending lexicographic
\* order; merge(A, B) = merge(B, A); merge(merge(A, B), B) = merge(A, B);
\* merge(absent, B) is B deduplicated and sorted.
C24_MergeAlgebra ==
  (mCall = "merge" /\ mpc = "returned") =>
    LET A == mArgs.existing
        B == Data(mArgs.newData)
        merged == mOut.value
    IN /\ Range(merged.allowedAccountIds)
            = Range(A.allowedAccountIds) \cup Range(B.allowedAccountIds)
       /\ C24_NoDuplicates(merged.allowedAccountIds)
       /\ \A i, j \in DOMAIN merged.allowedAccountIds :
            i < j => LexLess(merged.allowedAccountIds[i], merged.allowedAccountIds[j])
       /\ mergeIds(B, Data(A.allowedAccountIds)) = merged
       /\ mergeIds(merged, B) = merged
       /\ ~A.present => Range(merged.allowedAccountIds) = Range(B.allowedAccountIds)

\* merge returned for two lists that share an id, where the 11-digit id
\* sorts after a 12-digit one
C24_Witness ==
  /\ mCall = "merge" /\ mpc = "returned"
  /\ mArgs.existing.present
  /\ Range(mArgs.existing.allowedAccountIds) \cap Range(mArgs.newData) # {}
  /\ {Rep("9", 11), ValidId2} \subseteq Range(mOut.value.allowedAccountIds)

C25_ContextIds ==
  {mArgs.context.cicdAccountId}
    \cup UNION {Range(mArgs.context.pipelines[pi].targetAccountIds) :
                  pi \in DOMAIN mArgs.context.pipelines}

\* C25: collectNew is all-or-nothing. When the CI/CD account id and every
\* target account id are 12 digits, collectNew returns exactly these ids,
\* each once; otherwise it fails, naming an offending value and, for a target
\* id, the slug of its pipeline, and returns no list.
C25_CollectNewAllOrNothing ==
  mCall = "collectNew" =>
    IF \A id \in C25_ContextIds : isValidAwsAccountId(id)
    THEN /\ mpc = "returned"
         /\ mOut.value.present
         /\ Range(mOut.value.allowedAccountIds) = C25_ContextIds
         /\ C24_NoDuplicates(mOut.value.allowedAccountIds)
    ELSE /\ mpc = "thrown"
         /\ ~mOut.value.present /\ mOut.value.allowedAccountIds = <<>>
         /\ ~isValidAwsAccountId(mOut.error.value)
         /\ IF mOut.error.about = "Invalid CI/CD account ID"
            THEN mOut.error.value = mArgs.context.cicdAccountId
            ELSE \E pi \in DOMAIN mArgs.context.pipelines :
                   /\ mArgs.context.pipelines[pi].slug = mOut.error.slug
                   /\ mOut.error.value \in Range(mArgs.context.pipelines[pi].targetAccountIds)

\* collectNew failed on an id of the second pipeline after a valid first one
C25_Witness ==
  /\ mCall = "collectNew" /\ mpc = "thrown"
  /\ mOut.error.slug = 2
  /\ Len(mArgs.context.pipelines[1].targetAccountIds) = 1

\* C26: validation gates deployment. Every merged result handed to template
\* generation has been checked by validate before, and a merged result that
\* validate reports as invalid is never deployed.
C26_ValidationGates ==
  (/\ mCall = "deployOrgStack"
   /\ mArgs.hasStack
   /\ mpc \in {"previewStackChanges", "deployStack", "returned"})
    => mValidated /\ validate(mTemplate).valid

C27_Offending(ids) == {i \in DOMAIN ids : ~isValidAwsAccountId(ids[i])}

\* C27: validate result. valid is true exactly when every id is 12 digits,
\* with one error per offending id otherwise; warnings is there exactly when
\* the list has more than 50 ids, and a warning never makes the result invalid.
C27_ValidateResult ==
  mCall = "validate" =>
    LET ids == mArgs.newData
        v == mOut.value
    IN /\ v.valid <=> C27_Offending(ids) = {}
       /\ Len(v.errors.items) = Cardinality(C27_Offending(ids))
       /\ v.errors.defined <=> ~v.valid
       /\ \A k \in DOMAIN v.errors.items : ~isValidAwsAccountId(v.errors.items[k])
       /\ v.warnings.defined <=> Len(ids) > 50
       /\ v.warnings.defined <=> v.warnings.items # <<>>

\* validate returned for 51 valid ids, with a warning
C27_Witness ==
  /\ mCall = "validate"
  /\ Len(mArgs.newData) = 51
  /\ mOut.value.valid
  /\ mOut.value.warnings.defined

C28_ReadFailed(response) ==
  \/ response.error # ""
  \/ response.policy.kind \in {"none", "unparsable"}
  \/ extractAccountIds(response.policy).threw

C28_Extracted ==
  /\ mCall = "deployOrgStack"
  /\ mArgs.hasStack
  /\ mpc \in {"previewStackChanges", "deployStack", "returned", "thrown"}

C29_Principals(policy) ==
  UNION {Range(policy.statements[i].principals) : i \in DOMAIN policy.statements}

C29_Found(policy, resources) ==
  {p.text : p \in {q \in C29_Principals(policy) :
                     /\ \/ q.kind = "text"
                        \/ q.kind = "arn" /\ q.service = "iam" /\ q.resource \in resources
                     /\ Len(q.text) = 12
                     /\ \A i \in 1..12 : q.text[i] \in Digits}}

C29_Read ==
  /\ mCall = "extractExisting"
  /\ strategyBucketName # ""
  /\ ~C28_ReadFailed(mArgs.response)

C30_CredentialsNotRetained ==
  (\/ mCall = "none"
   \/ mCall = "deployOrgStack" /\ mpc \in {"returned", "thrown"})
    => strategyCredentials = "none"

\* ---- C31 (src/src/utils/logger.ts, src/src/commands/bootstrap.ts)
\* the registry entries a task has written are the entry of its descriptor
C31_WritesOwnKey ==
  \A key \in DOMAIN registry :
    \A t \in registry[key].writers : RegisteredKey(regStacks[t]) = key

C31_DistinctKeys ==
  \A i, j \in RegTasks : i # j => RegisteredKey(regStacks[i]) # RegisteredKey(regStacks[j])

\* C31: the progress registry has no contention. In every phase each task
\* writes only the registry entry keyed by the (stackName, accountId, region)
\* of its own descriptor, and no two tasks of the phase have the same key.
C31_NoRegistryContention ==
  gpc = "awaiting" => C31_WritesOwnKey /\ C31_DistinctKeys

\* ---- C36
C36_Final(t) == registry[TaskKey(t)].status \in {"complete", "failed"}

\* C36: the registry agrees with the outcomes at the phase join. When all
\* tasks of a phase have resolved, every registered stack is complete or
\* failed, and complete exactly if its task's outcome is a success (stated
\* for the phases whose stacks have different keys).
C36_RegistryAgreesAtJoin ==
  (PhaseSettled /\ C31_DistinctKeys) =>
    \A t \in RegTasks :
      /\ C36_Final(t)
      /\ registry[TaskKey(t)].status = "complete" <=> rres[t] = "ok"

\* ---- C33 (src/src/commands/bootstrap.ts)
\* C33: dry run and declined confirmation change nothing. When the command
\* runs with the dry-run option, or the user declines the confirmation, no
\* create, update, delete or change-set call is made to the provider; the only
\* calls are the role assumptions and status probes of planning, one probe
\* per planned stack at most.
C33_DryRunChangesNothing ==
  (cmdDryRun \/ cmdConfirmed = "declined") =>
    /\ cmdCalls.submits = 0
    /\ cmdCalls.changeSets = 0
    /\ cmdCalls.describeStacks <= cmdStacks
    /\ cmdCalls.assumeRole <= cmdStacks
    /\ cmdpc # "executeDeployment"
    /\ cmdExit \in {-1, 0, 1}
    /\ cmdpc = "exited" /\ cmdCalls.describeStacks > 0 => cmdExit = 0

\* a dry run has ended after its planning probes
C33_Witness ==
  /\ cmdDryRun
  /\ cmdpc = "exited"
  /\ cmdCalls.describeStacks = cmdStacks
  /\ cmdCalls.assumeRole > 0

\* C34: isValidAwsAccountId accepts a string exactly when it is twelve
\* characters long and each is one of the decimal digits 0 to 9: a letter, a
\* hyphen, a space, a trailing newline or punctuation anywhere makes it
\* rejected, as do 11 or 13 digits and the empty string; validateAwsAccountId
\* throws exactly for the rejected strings.
C34_TwelveDigits(str) ==
  /\ Len(str) = 12
  /\ \A i \in 1..Len(str) : \E d \in 0..9 : str[i] = DigitChar(d)

C34_AccountIdFormat ==
  mCall = "validateAwsAccountId" =>
    /\ mOut.value <=> C34_TwelveDigits(mArgs.accountId)
    /\ mOut.threw <=> ~mOut.value
    /\ mpc = "thrown" <=> mOut.threw

\* twelve digits followed by a newline were given, and rejected
C34_Witness ==
  /\ mCall = "validateAwsAccountId"
  /\ mArgs.accountId = Rep("1", 12) \o <<"\n">>
  /\ mOut.threw

\* C32: a deployStack whose wait loop ends at a success status returns, and
\* the completed count its registry entry then shows is the number of distinct
\* logical resources whose completion events the loop observed.
C32_FinalCountIsObserved ==
  (dpc = "returned" /\ currentStatus \in SUCCESS_STATES) =>
    progressEntry.completed = Cardinality(completedResources)

\* C35: in the poll loop the completed resources are the logical ids, other
\* than the stack's own, of the handled events that are newer than the
\* operation start and whose status has _COMPLETE and no ROLLBACK in it; the
\* count shown after a poll is their number; an event is handled once, and
\* neither the handled events nor the count shrink while the loop runs.
C35_InLoop(pc) == pc \in {"describeStacks", "describeStackEvents", "sleep"}

C35_CountsAsProgress(st) ==
  st \in {"CREATE_COMPLETE", "UPDATE_COMPLETE", "DELETE_COMPLETE", "IMPORT_COMPLETE",
          "UPDATE_COMPLETE_CLEANUP_IN_PROGRESS"}

C35_Counted ==
  {providerEvents[i].logicalId :
     i \in {j \in seenEventIds \cap DOMAIN providerEvents :
             /\ j > operationStart
             /\ providerEvents[j].logicalId \notin {"", stackName}
             /\ C35_CountsAsProgress(providerEvents[j].status)}}

C35_CountIsRule ==
  C35_InLoop(dpc) =>
    /\ completedResources = C35_Counted
    /\ seenEventIds \subseteq {i \in DOMAIN providerEvents : i > operationStart}
    /\ dpc = "sleep" => /\ progressEntry.completed = Cardinality(completedResources)
                        /\ seenEventIds = {i \in DOMAIN providerEvents : i > operationStart}

C35_PollStep ==
  (C35_InLoop(dpc) /\ dpc' # "thrown") =>
    /\ seenEventIds \subseteq seenEventIds'
    /\ Cardinality(completedResources') >= Cardinality(completedResources)
    /\ (dpc = "describeStackEvents" /\ dpc' # dpc) =>
         /\ seenEventIds' \ seenEventIds = NewEventIds(providerEvents)
         /\ NewEventIds(providerEvents) \cap seenEventIds = {}

C35_CompletionCounting == []C35_CountIsRule /\ [][C35_PollStep]_vars

\* the loop has counted R1, and has handled a ROLLBACK_COMPLETE event of R2
\* without counting it
C35_Witness ==
  /\ dpc = "sleep"
  /\ completedResources = {"R1"}
  /\ \E i \in seenEventIds : /\ providerEvents[i].logicalId = "R2"
                              /\ providerEvents[i].status = "ROLLBACK_COMPLETE"

\* C39: what deployStack submits follows the status its own probe returned:
\* create for an absent stack, delete then create for ROLLBACK_COMPLETE, update
\* for every other status; never more than one create or update; and the
\* action the plan recorded for the stack plays no part.
C39_Operations(status) ==
  IF ~status.exists THEN <<"create">>
  ELSE IF status.status = "ROLLBACK_COMPLETE" THEN <<"delete", "create">>
  ELSE <<"update">>

C39_SubmittedFollowsStatus ==
  LET expected == C39_Operations(stackStatus)
  IN /\ Len(submitted) <= Len(expected)
     /\ \A k \in DOMAIN submitted : submitted[k] = expected[k]
     /\ Cardinality({k \in DOMAIN submitted : submitted[k] \in {"create", "update"}}) <= 1
     /\ (C35_InLoop(dpc) \/ dpc \in {"create", "update", "returned"}) => submitted = expected

\* the plan said CREATE, the stack was there at deployment: an update went out
C39_Witness ==
  /\ planAction = "CREATE"
  /\ dpc = "returned"
  /\ submitted = <<"update">>
  /\ stackStatus.exists

\* C37: whatever fails inside previewStackChanges (the status probe, the
\* change-set creation, the wait, the describe, the cleanup), the preview
\* returns to the deploy function, which goes on to call deployStack: a
\* preview never ends in a rejection.
C37_PreviewIsAdvisory ==
  (previewCalls # <<>> /\ ppc \in {"returned", "thrown"}) =>
    /\ ppc = "returned"
    /\ pvThrown = ""

\* C38: a descriptor is tagged UPDATE only if, when it was planned, a stack
\* of its name existed in its own account and region; a failed role
\* assumption does not let a stack of the current account decide.
C38_UpdateOnlyWhereDeployed ==
  planOut # <<>> =>
    (planOut[Len(planOut)].action = "UPDATE" => lastProbe.existsInOwn)

\* C40: every run terminates. With every awaited call returning or failing
\* and time advancing, a deployStack that was called returns or throws, its
\* poll loop ending at a terminal status or one poll interval past the
\* ceiling at the latest, also when the provider leaves the stack in progress
\* for ever; and an executeDeployment that was called reaches its exit status.
C40_LoopBounded ==
  /\ elapsed <= MaxWaitTicks + 1
  /\ C35_InLoop(dpc) => elapsed <= MaxWaitTicks

C40_EveryRunTerminates ==
  /\ []C40_LoopBounded
  /\ (dpc = "start") ~> (dpc \in {"returned", "thrown"})
  /\ (epc = "start") ~> (epc = "exited" /\ exitCode \in {0, 1})

\* the stack was still in progress one poll interval past the ceiling: the
\* loop gave up and deployStack threw
C40_Witness ==
  /\ dpc = "thrown"
  /\ thrown.cause = TimeoutMessage
  /\ elapsed = MaxWaitTicks + 1
  /\ providerStatus \in InProgressStatuses

====
